---- MODULE Spec2Model ----
(***************************************************************************)
(* DocForge Agents: the persisted workflow state (.docforge/state.json),   *)
(* the step graph, the approval ledger, the checkpoint recorder and the    *)
(* CLI commands (init, continue, approve, prompts, review) that drive      *)
(* them.  The state file is `disk`; a running command holds its own copy   *)
(* of the state in `mem` and every store operation is a load-modify-save   *)
(* cycle against `disk`.                                                   *)
(***************************************************************************)
EXTENDS Integers, Sequences, FiniteSets, TLC

(***************************************************************************)
(* Bounds                                                                  *)
(***************************************************************************)
\* number of distinct results the generation collaborator can return
MaxGen == 2
\* number of CLI invocations in one behaviour
MaxCmds == 3
\* number of store calls one racing writer issues
MaxWriterOps == 1
\* number of store calls in one behaviour of the store on its own
MaxStoreOps == 2
\* number of `next` hops followed from the first step before giving up
MaxWalk == 20

Null == "null"

DocTypes == {"rfc", "plan", "rollout"}

(***************************************************************************)
(* Step graph (state/machine.ts)                                           *)
(***************************************************************************)
STEPS ==
  [ rfc_problem           |-> [phase |-> "rfc",     isCheckpoint |-> TRUE,  next |-> "rfc_goals"],
    rfc_goals             |-> [phase |-> "rfc",     isCheckpoint |-> TRUE,  next |-> "rfc_approach"],
    rfc_approach          |-> [phase |-> "rfc",     isCheckpoint |-> TRUE,  next |-> "rfc_interfaces"],
    rfc_interfaces        |-> [phase |-> "rfc",     isCheckpoint |-> TRUE,  next |-> "rfc_alternatives"],
    rfc_alternatives      |-> [phase |-> "rfc",     isCheckpoint |-> TRUE,  next |-> "rfc_complete"],
    rfc_complete          |-> [phase |-> "rfc",     isCheckpoint |-> FALSE, next |-> "plan_stages"],
    plan_stages           |-> [phase |-> "plan",    isCheckpoint |-> TRUE,  next |-> "plan_criteria"],
    plan_criteria         |-> [phase |-> "plan",    isCheckpoint |-> TRUE,  next |-> "plan_complete"],
    plan_complete         |-> [phase |-> "plan",    isCheckpoint |-> FALSE, next |-> "rollout_risks"],
    rollout_risks         |-> [phase |-> "rollout", isCheckpoint |-> TRUE,  next |-> "rollout_observability"],
    rollout_observability |-> [phase |-> "rollout", isCheckpoint |-> TRUE,  next |-> "rollout_procedures"],
    rollout_procedures    |-> [phase |-> "rollout", isCheckpoint |-> TRUE,  next |-> "rollout_complete"],
    rollout_complete      |-> [phase |-> "rollout", isCheckpoint |-> FALSE, next |-> "prompts_generate"],
    prompts_generate      |-> [phase |-> "prompts", isCheckpoint |-> FALSE, next |-> "complete"],
    complete              |-> [phase |-> "prompts", isCheckpoint |-> FALSE, next |-> Null] ]

StepId == DOMAIN STEPS

FirstStep == "rfc_problem"

\* a graph whose chain ends at rollout.complete
getNextStep_stopsEarly(currentStepId) ==
  IF currentStepId = "rollout_complete" THEN Null ELSE STEPS[currentStepId].next

\* a graph whose `next` of rfc.approach points back to rfc.goals
getNextStep_pointsBack(currentStepId) ==
  IF currentStepId = "rfc_approach" THEN "rfc_goals" ELSE STEPS[currentStepId].next

getNextStep(currentStepId) == STEPS[currentStepId].next

isCheckpoint(stepId) == STEPS[stepId].isCheckpoint

getPhase(stepId) == STEPS[stepId].phase

phaseOrder == <<"rfc", "plan", "rollout", "prompts">>

indexOf(seq, x) == CHOOSE i \in 1..Len(seq) : seq[i] = x

\* the sentinel `${phase}.complete`
completeStepId(phase) ==
  CASE phase = "rfc"     -> "rfc_complete"
    [] phase = "plan"    -> "plan_complete"
    [] phase = "rollout" -> "rollout_complete"

\* `>=` where the code has `>`
isPhaseComplete_atOrPast(state, phase) ==
  \/ indexOf(phaseOrder, getPhase(state.currentStep)) >= indexOf(phaseOrder, phase)
  \/ state.currentStep = completeStepId(phase)

\* a completion test that looks for the sentinel alone
isPhaseComplete_sentinelOnly(state, phase) ==
  state.currentStep = completeStepId(phase)

isPhaseComplete(state, phase) ==
  \/ indexOf(phaseOrder, getPhase(state.currentStep)) > indexOf(phaseOrder, phase)
  \/ state.currentStep = completeStepId(phase)

\* number of `next` hops from one step to a later one in the declared chain
RECURSIVE Hops(_, _)
Hops(from, to) ==
  IF from = to THEN 0
  ELSE IF STEPS[from].next = Null THEN 1000
  ELSE 1 + Hops(STEPS[from].next, to)

StepIndex(stepId) == Hops(FirstStep, stepId)

\* Object.keys(STEPS): the step ids in the order the literal declares them
allSteps ==
  << "rfc_problem", "rfc_goals", "rfc_approach", "rfc_interfaces", "rfc_alternatives",
     "rfc_complete", "plan_stages", "plan_criteria", "plan_complete", "rollout_risks",
     "rollout_observability", "rollout_procedures", "rollout_complete",
     "prompts_generate", "complete" >>

\* a filter that leaves the `.complete` sentinels out
getPhaseSteps_withoutSentinel(phase) ==
  SelectSeq(allSteps, LAMBDA id : STEPS[id].phase = phase /\ STEPS[id].isCheckpoint)

\* Object.values(STEPS).filter(step => step.phase === phase), as step ids
getPhaseSteps(phase) ==
  SelectSeq(allSteps, LAMBDA id : STEPS[id].phase = phase)

\* Math.round(num / den * 100) for non-negative num and positive den: the
\* nearest integer, a half going up
MathRoundPercent(num, den) == (200 * num + den) \div (2 * den)

\* a percentage over the number of steps instead of the number of hops
getProgressPercentage_overLength(state) ==
  MathRoundPercent(indexOf(allSteps, state.currentStep) - 1, Len(allSteps))

\* currentIndex is 0-based in the code, indexOf here is 1-based
getProgressPercentage(state) ==
  MathRoundPercent(indexOf(allSteps, state.currentStep) - 1, Len(allSteps) - 1)

\* a count that includes the current step
getRemainingSteps_countsCurrent(state) ==
  Len(allSteps) - (indexOf(allSteps, state.currentStep) - 1)

\* allSteps.length - currentIndex - 1, currentIndex 0-based
getRemainingSteps(state) ==
  Len(allSteps) - (indexOf(allSteps, state.currentStep) - 1) - 1

(***************************************************************************)
(* Document text.  A text is what the renderer returns or what a caller    *)
(* passes to the store: the headings it contains, its payload and whether  *)
(* its trimmed length reaches the 50 characters the commands ask for.      *)
(***************************************************************************)
RfcFields == {"problem", "goals", "nonGoals", "approach", "interfaces",
              "alternatives", "openQuestions", "assumptions"}
PlanFields == {"stages", "criteria"}
RolloutFields == {"risks", "observability", "rolloutSteps", "killSwitch",
                  "rollback", "stopConditions"}

FieldsOf(docType) ==
  CASE docType = "rfc"     -> RfcFields
    [] docType = "plan"    -> PlanFields
    [] docType = "rollout" -> RolloutFields

\* field value 0 is `undefined`; 1..MaxGen are generated values
EmptyProgress ==
  [ rfc     |-> [f \in RfcFields |-> 0],
    plan    |-> [f \in PlanFields |-> 0],
    rollout |-> [f \in RolloutFields |-> 0] ]

\* a digest that only covers the headings of the text
calculateHash_headingsOnly(content) == <<"sha256", content.secs>>

\* calculateHash: SHA-256 of the literal content, hex digest
calculateHash(content) == <<"sha256", content>>

NoHash == <<>>

\* the section requirement a progress field's heading satisfies
HeadingOf(docType, field) ==
  CASE docType = "rfc" /\ field = "problem"       -> "Problem Statement"
    [] docType = "rfc" /\ field = "goals"         -> "Goals"
    [] docType = "rfc" /\ field = "nonGoals"      -> "Non-Goals"
    [] docType = "rfc" /\ field = "approach"      -> "Approach"
    [] docType = "rfc" /\ field = "interfaces"    -> "Interfaces & Contracts"
    [] docType = "rfc" /\ field = "alternatives"  -> "Alternatives"
    [] docType = "rfc" /\ field = "openQuestions" -> "Open Questions"
    [] docType = "rfc" /\ field = "assumptions"   -> "Assumptions"
    [] docType = "plan" /\ field = "stages"       -> "Stages"
    [] docType = "plan" /\ field = "criteria"     -> "Acceptance Criteria"
    [] docType = "rollout" /\ field = "risks"          -> "Key Risks"
    [] docType = "rollout" /\ field = "observability"  -> "Observability"
    [] docType = "rollout" /\ field = "rolloutSteps"   -> "Rollout Steps"
    [] docType = "rollout" /\ field = "killSwitch"     -> "Kill Switch"
    [] docType = "rollout" /\ field = "rollback"       -> "Rollback"
    [] docType = "rollout" /\ field = "stopConditions" -> "Stop Conditions"

\* headings every rendered stage carries besides its own `## Stage NN`
StageHeadings == {"Overview", "Stages", "Acceptance Criteria", "Definition of Done"}

\* render(documentType, state): a heading appears only for a field that is
\* defined; the payload is the progress of that document
Render(docType, state) ==
  LET prog == state.documentProgress[docType]
      defined == {f \in FieldsOf(docType) : prog[f] # 0}
  IN [ doc  |-> docType,
       secs |-> IF docType = "plan"
                THEN (IF prog["stages"] # 0 THEN StageHeadings ELSE {})
                ELSE {HeadingOf(docType, f) : f \in defined},
       body |-> <<state.project, prog>>,
       long |-> defined # {} ]

(***************************************************************************)
(* Document validation (utils/validation.ts)                               *)
(***************************************************************************)
RFC_SECTIONS ==
  << [name |-> "Problem Statement",      required |-> TRUE],
     [name |-> "Goals",                  required |-> TRUE],
     [name |-> "Non-Goals",              required |-> TRUE],
     [name |-> "Approach",               required |-> TRUE],
     [name |-> "Interfaces & Contracts", required |-> TRUE],
     [name |-> "Alternatives",           required |-> TRUE],
     [name |-> "Open Questions",         required |-> FALSE],
     [name |-> "Assumptions",            required |-> FALSE] >>

PLAN_SECTIONS ==
  << [name |-> "Overview",            required |-> TRUE],
     [name |-> "Stages",              required |-> TRUE],
     [name |-> "Acceptance Criteria", required |-> TRUE],
     [name |-> "Definition of Done",  required |-> TRUE] >>

ROLLOUT_SECTIONS ==
  << [name |-> "Key Risks",       required |-> TRUE],
     [name |-> "Observability",   required |-> TRUE],
     [name |-> "Rollout Steps",   required |-> TRUE],
     [name |-> "Kill Switch",     required |-> TRUE],
     [name |-> "Rollback",        required |-> TRUE],
     [name |-> "Stop Conditions", required |-> TRUE] >>

\* section.pattern.test(content)
PatternTest(section, content) == section.name \in content.secs

\* a validation in which any unmatched section, optional or not, counts as
\* missing
validateDocument_optionalCounts(content, sections) ==
  LET missing == SelectSeq(sections, LAMBDA s : ~PatternTest(s, content))
  IN [ valid           |-> Len(missing) = 0,
       missingSections |-> [i \in 1..Len(missing) |-> missing[i].name],
       warnings        |-> <<>> ]

validateDocument(content, sections) ==
  LET missing == SelectSeq(sections, LAMBDA s : ~PatternTest(s, content) /\ s.required)
      optional == SelectSeq(sections, LAMBDA s : ~PatternTest(s, content) /\ ~s.required)
  IN [ valid           |-> Len(missing) = 0,
       missingSections |-> [i \in 1..Len(missing) |-> missing[i].name],
       warnings        |-> [i \in 1..Len(optional) |->
                              <<"Optional section missing: ", optional[i].name>>] ]

validateDocumentByType(documentType, content) ==
  CASE documentType = "rfc"     -> validateDocument(content, RFC_SECTIONS)
    [] documentType = "plan"    -> validateDocument(content, PLAN_SECTIONS)
    [] documentType = "rollout" -> validateDocument(content, ROLLOUT_SECTIONS)

\* a check that never looks at the validation result
strictModeCheck_alwaysPasses(state, documentType, content) ==
  [passes |-> TRUE, errors |-> <<>>]

\* a check that reports the first missing section only
strictModeCheck_firstErrorOnly(state, documentType, content) ==
  IF ~state.strictMode
  THEN [passes |-> TRUE, errors |-> <<>>]
  ELSE LET result == validateDocumentByType(documentType, content)
       IN IF ~result.valid
          THEN [passes |-> FALSE,
                errors |-> <<<<"Missing required section: ", result.missingSections[1]>>>>]
          ELSE [passes |-> TRUE, errors |-> <<>>]

strictModeCheck(state, documentType, content) ==
  IF ~state.strictMode
  THEN [passes |-> TRUE, errors |-> <<>>]
  ELSE LET result == validateDocumentByType(documentType, content)
       IN IF ~result.valid
          THEN [passes |-> FALSE,
                errors |-> [i \in 1..Len(result.missingSections) |->
                              <<"Missing required section: ", result.missingSections[i]>>]]
          ELSE [passes |-> TRUE, errors |-> <<>>]

(***************************************************************************)
(* Project state and the pure part of the store (state/types.ts, store.ts) *)
(***************************************************************************)
createInitialState(project) ==
  [ version             |-> 1,
    project             |-> project,
    currentStep         |-> FirstStep,
    checkpointResponses |-> <<>>,
    approvals           |-> <<>>,
    documentHashes      |-> [t \in DocTypes |-> NoHash],
    documentProgress    |-> EmptyProgress,
    strictMode          |-> FALSE ]

isDocumentApproved(state, documentType) ==
  \E i \in 1..Len(state.approvals) : state.approvals[i].documentType = documentType

hasDocumentChanged(state, documentType, currentContent) ==
  IF ~isDocumentApproved(state, documentType) THEN TRUE
  ELSE LET i == CHOOSE k \in 1..Len(state.approvals) :
                   /\ state.approvals[k].documentType = documentType
                   /\ \A j \in 1..(k - 1) : state.approvals[j].documentType # documentType
       IN state.approvals[i].contentHash # calculateHash(currentContent)

areAllDocumentsApproved(state) ==
  \A doc \in DocTypes : isDocumentApproved(state, doc)

\* recordApproval without the filter that drops the previous entry
ApprovalRecorded_keepsOld(state, documentType, content) ==
  LET contentHash == calculateHash(content)
  IN [state EXCEPT
        !.approvals = Append(@, [documentType |-> documentType,
                                 contentHash  |-> contentHash]),
        !.documentHashes[documentType] = contentHash]

\* recordApproval whose filter drops every previous entry
ApprovalRecorded_dropsAll(state, documentType, content) ==
  LET contentHash == calculateHash(content)
  IN [state EXCEPT
        !.approvals = <<[documentType |-> documentType, contentHash |-> contentHash]>>,
        !.documentHashes[documentType] = contentHash]

\* recordApproval without the documentHashes assignment
ApprovalRecorded_noHashUpdate(state, documentType, content) ==
  LET contentHash == calculateHash(content)
      kept == SelectSeq(state.approvals, LAMBDA a : a.documentType # documentType)
  IN [state EXCEPT
        !.approvals = Append(kept, [documentType |-> documentType,
                                    contentHash  |-> contentHash])]

\* recordApproval that removes the old entry and never pushes the new one
ApprovalRecorded_noPush(state, documentType, content) ==
  LET kept == SelectSeq(state.approvals, LAMBDA a : a.documentType # documentType)
  IN [state EXCEPT !.approvals = kept,
                   !.documentHashes[documentType] = calculateHash(content)]

\* recordApproval that rebuilds documentHashes with the one hash it computed
ApprovalRecorded_forgetsOtherHashes(state, documentType, content) ==
  LET contentHash == calculateHash(content)
      kept == SelectSeq(state.approvals, LAMBDA a : a.documentType # documentType)
  IN [state EXCEPT
        !.approvals = Append(kept, [documentType |-> documentType,
                                    contentHash  |-> contentHash]),
        !.documentHashes = [t \in DocTypes |->
                              IF t = documentType THEN contentHash ELSE NoHash]]

\* the state recordApproval saves, given the state it loaded
ApprovalRecorded(state, documentType, content) ==
  LET contentHash == calculateHash(content)
      kept == SelectSeq(state.approvals, LAMBDA a : a.documentType # documentType)
  IN [state EXCEPT
        !.approvals = Append(kept, [documentType |-> documentType,
                                    contentHash  |-> contentHash]),
        !.documentHashes[documentType] = contentHash]

\* `answer || null`
OrNull(answer) == IF answer = "" THEN Null ELSE answer

\* a recorder that keeps one entry per step: an earlier entry for the same
\* stepId is dropped
ResponseRecorded_replacesSameStep(state, stepId, disagreements, clarifications, missedConstraints) ==
  [state EXCEPT
     !.checkpointResponses =
        Append(SelectSeq(@, LAMBDA r : r.stepId # stepId),
               [stepId            |-> stepId,
                disagreements     |-> disagreements,
                clarifications    |-> clarifications,
                missedConstraints |-> missedConstraints])]

\* the state recordCheckpointResponse saves, given the state it loaded
ResponseRecorded(state, stepId, disagreements, clarifications, missedConstraints) ==
  [state EXCEPT
     !.checkpointResponses = Append(@, [stepId            |-> stepId,
                                        disagreements     |-> disagreements,
                                        clarifications    |-> clarifications,
                                        missedConstraints |-> missedConstraints])]

(***************************************************************************)
(* The state file as text.  A text is the sequence of tokens               *)
(* JSON.stringify(state, null, 2) writes: the opening brace, one token per *)
(* property, the closing brace.  A write that stops early leaves a prefix. *)
(***************************************************************************)
\* the properties of a DocForgeState, in the order createInitialState sets them
JsonKeys ==
  << "version", "project", "currentStep", "checkpointResponses", "approvals",
     "documentHashes", "documentProgress", "strictMode" >>

OpenBrace == [k |-> "{", v |-> 0]

CloseBrace == [k |-> "}", v |-> 0]

\* what JSON.stringify writes for a property's value: a nested property
\* whose value is undefined is left out, everything else is written as is
Serialized(key, value) ==
  CASE key = "documentProgress" ->
         [t \in DocTypes |-> {<<f, value[t][f]>> : f \in {g \in FieldsOf(t) : value[t][g] # 0}}]
    [] key = "documentHashes" ->
         {<<t, value[t]>> : t \in {u \in DocTypes : value[u] # NoHash}}
    [] OTHER -> value

\* a serialisation that leaves the last property out
JSON_stringify_dropsLast(state) ==
  <<OpenBrace>>
  \o [i \in 1..(Len(JsonKeys) - 1) |->
        [k |-> JsonKeys[i], v |-> Serialized(JsonKeys[i], state[JsonKeys[i]])]]
  \o <<CloseBrace>>

\* JSON.stringify(state, null, 2)
JSON_stringify(state) ==
  <<OpenBrace>>
  \o [i \in 1..Len(JsonKeys) |->
        [k |-> JsonKeys[i], v |-> Serialized(JsonKeys[i], state[JsonKeys[i]])]]
  \o <<CloseBrace>>

\* the value a parsed property has when read: a nested property the text
\* does not have reads as undefined
Deserialized(key, v) ==
  CASE key = "documentProgress" ->
         [t \in DocTypes |->
            [f \in FieldsOf(t) |->
               IF \E p \in v[t] : p[1] = f THEN (CHOOSE p \in v[t] : p[1] = f)[2] ELSE 0]]
    [] key = "documentHashes" ->
         [t \in DocTypes |->
            IF \E p \in v : p[1] = t THEN (CHOOSE p \in v : p[1] = t)[2] ELSE NoHash]
    [] OTHER -> v

\* JSON.parse(content): ok is FALSE where it throws a SyntaxError (the text
\* is empty or does not close its brace); value is the object made of the
\* properties the text holds
JSON_parse(content) ==
  LET n == Len(content)
      props == {i \in 1..n : content[i].k \notin {"{", "}"}}
      keys == {content[i].k : i \in props}
  IN [ ok    |-> n >= 2 /\ content[1].k = "{" /\ content[n].k = "}",
       value |-> [key \in keys |->
                    Deserialized(key, content[CHOOSE i \in props : content[i].k = key].v)] ]

(***************************************************************************)
(* The store against the file (state/store.ts).  A file is absent, or      *)
(* present with a text; a present file may deny access to the caller (no   *)
(* permission on it), and then neither reading nor writing gets through.   *)
(***************************************************************************)
NoFile == [exists |-> FALSE, readable |-> FALSE, content |-> <<>>]

\* opening the file fails with EACCES
Denied(f) == f.exists /\ ~f.readable

Returned(value) == [kind |-> "ok", message |-> "", value |-> value]

Thrown(message) == [kind |-> "error", message |-> message, value |-> <<>>]

NoProjectFound == "No DocForge project found. Run \"docforge init\" to create one."

\* fs.writeFile(path, content): creates the file or replaces its content;
\* the file it leaves and whether it resolved or rejected
writeFile(f, content) ==
  IF Denied(f)
  THEN [file |-> f, ret |-> Thrown("EACCES")]
  ELSE [file |-> [exists |-> TRUE, readable |-> TRUE, content |-> content],
        ret  |-> Returned(<<>>)]

\* fs.writeFile that stops after `written` tokens: the file was truncated
\* when it was opened, then filled up to there
writeFileCut(f, content, written) ==
  [exists |-> TRUE, readable |-> TRUE, content |-> SubSeq(content, 1, written)]

\* projectExists: fs.access(path) resolves for any file that is there
\* an existence test that asks for a record that loads
projectExists_whenLoadable(f) == f.exists /\ f.readable /\ JSON_parse(f.content).ok

\* access(path) succeeds for a file that is there, whatever it holds
projectExists(f) == f.exists

\* a load that hands back whatever it could read of a text that does not parse
loadState_lenient(f) ==
  IF f.exists /\ ~Denied(f)
  THEN Returned(JSON_parse(f.content).value)
  ELSE Thrown(NoProjectFound)

\* loadState: readFile and JSON.parse inside one try; any failure is rethrown
\* as the same Error
loadState(f) ==
  IF f.exists /\ ~Denied(f) /\ JSON_parse(f.content).ok
  THEN Returned(JSON_parse(f.content).value)
  ELSE Thrown(NoProjectFound)

\* saveState: writeFile of the serialised state
saveState(f, state) == writeFile(f, JSON_stringify(state))

\* an initialize that keeps a record it finds and hands that one back
initializeProject_keepsExisting(f, project) ==
  IF loadState(f).kind = "ok"
  THEN [file |-> f, ret |-> loadState(f)]
  ELSE [file |-> writeFile(f, JSON_stringify(createInitialState(project))).file,
        ret  |-> writeFile(f, JSON_stringify(createInitialState(project))).ret]

\* initializeProject: mkdir -p, createInitialState, writeFile; the file it
\* leaves and what it returns
initializeProject(f, project) ==
  LET state == createInitialState(project)
      written == writeFile(f, JSON_stringify(state))
  IN [file |-> written.file,
      ret  |-> IF written.ret.kind = "error" THEN written.ret ELSE Returned(state)]

\* a merge that goes one level down into documentProgress
ShallowMerge_deep(state, updates) ==
  [key \in DOMAIN state \cup DOMAIN updates |->
     IF key \notin DOMAIN updates THEN state[key]
     ELSE IF key # "documentProgress" THEN updates[key]
     ELSE [t \in DocTypes |->
             [f \in FieldsOf(t) |->
                IF updates[key][t][f] # 0 THEN updates[key][t][f] ELSE state[key][t][f]]]]

\* { ...state, ...updates }
ShallowMerge(state, updates) ==
  [key \in DOMAIN state \cup DOMAIN updates |->
     IF key \in DOMAIN updates THEN updates[key] ELSE state[key]]

\* updateState: load, merge, save, return the merged state
updateState(f, updates) ==
  LET loaded == loadState(f)
      newState == ShallowMerge(loaded.value, updates)
      saved == saveState(f, newState)
  IN IF loaded.kind = "error" THEN [file |-> f, ret |-> loaded]
     ELSE [file |-> saved.file,
           ret  |-> IF saved.ret.kind = "error" THEN saved.ret ELSE Returned(newState)]

\* recordCheckpointResponse: load, push the response, save, return the state
recordCheckpointResponse(f, stepId, disagreements, clarifications, missedConstraints) ==
  LET loaded == loadState(f)
      state == ResponseRecorded(loaded.value, stepId, disagreements, clarifications,
                                missedConstraints)
      saved == saveState(f, state)
  IN IF loaded.kind = "error" THEN [file |-> f, ret |-> loaded]
     ELSE [file |-> saved.file,
           ret  |-> IF saved.ret.kind = "error" THEN saved.ret ELSE Returned(state)]

\* a recordApproval that starts a fresh record when it cannot load one
recordApproval_createsOnMiss(f, documentType, content) ==
  LET loaded == loadState(f)
      base  == IF loaded.kind = "error" THEN createInitialState("P") ELSE loaded.value
      state == ApprovalRecorded(base, documentType, content)
      saved == saveState(f, state)
  IN [file |-> saved.file,
      ret  |-> IF saved.ret.kind = "error" THEN saved.ret ELSE Returned(state)]

\* recordApproval: load, replace the type's Approval, set its hash, save,
\* return the state
recordApproval(f, documentType, content) ==
  LET loaded == loadState(f)
      state == ApprovalRecorded(loaded.value, documentType, content)
      saved == saveState(f, state)
  IN IF loaded.kind = "error" THEN [file |-> f, ret |-> loaded]
     ELSE [file |-> saved.file,
           ret  |-> IF saved.ret.kind = "error" THEN saved.ret ELSE Returned(state)]

(***************************************************************************)
(* Agents (agents/*.ts): what generateStep writes into documentProgress    *)
(***************************************************************************)
\* the steps some agent's generateStep has a case for
HandledSteps ==
  {"rfc_problem", "rfc_goals", "rfc_approach", "rfc_interfaces", "rfc_alternatives",
   "plan_stages", "plan_criteria",
   "rollout_risks", "rollout_observability", "rollout_procedures",
   "prompts_generate"}

\* the progress fields a step's generation assigns
FieldsWritten(stepId) ==
  CASE stepId = "rfc_problem"           -> {"problem"}
    [] stepId = "rfc_goals"             -> {"goals", "nonGoals"}
    [] stepId = "rfc_approach"          -> {"approach"}
    [] stepId = "rfc_interfaces"        -> {"interfaces"}
    [] stepId = "rfc_alternatives"      -> {"alternatives", "openQuestions", "assumptions"}
    [] stepId = "plan_stages"           -> {"stages"}
    [] stepId = "plan_criteria"         -> {"criteria"}
    [] stepId = "rollout_risks"         -> {"risks"}
    [] stepId = "rollout_observability" -> {"observability"}
    [] stepId = "rollout_procedures"    -> {"rolloutSteps", "killSwitch", "rollback", "stopConditions"}
    [] OTHER                            -> {}

\* a generateStep that never throws
GenerateThrows_never(state, stepId, result) == FALSE

\* generateStep throws before it writes anything
GenerateThrows(state, stepId, result) ==
  \/ stepId \notin HandledSteps
  \/ stepId \in {"plan_criteria", "prompts_generate"} /\ state.documentProgress["plan"]["stages"] = 0
  \/ stepId # "prompts_generate" /\ result = 0

\* the message of the error generateStep throws
GenerateError(state, stepId) ==
  IF stepId \notin HandledSteps THEN "Error: agent cannot handle step"
  ELSE IF /\ stepId \in {"plan_criteria", "prompts_generate"}
          /\ state.documentProgress["plan"]["stages"] = 0
  THEN "Error: No stages defined."
  ELSE "Error: generation failed"

\* a generation that also overwrites the project metadata
Generated_retitlesProject(state, stepId, result) ==
  LET phase == getPhase(stepId)
  IN IF phase = "prompts" THEN state
     ELSE [state EXCEPT
             !.project = "untitled",
             !.documentProgress[phase] =
                [f \in FieldsOf(phase) |->
                   IF f \in FieldsWritten(stepId) THEN result
                   ELSE IF stepId = "plan_stages" /\ f = "criteria" THEN 0
                   ELSE @[f]]]

\* the state generateStep returns (and saves) for generation result `result`
Generated(state, stepId, result) ==
  LET phase == getPhase(stepId)
  IN IF phase = "prompts" THEN state
     ELSE [state EXCEPT
             !.documentProgress[phase] =
                [f \in FieldsOf(phase) |->
                   IF f \in FieldsWritten(stepId) THEN result
                   ELSE IF stepId = "plan_stages" /\ f = "criteria" THEN 0
                   ELSE @[f]]]

\* the text of a step id up to its first dot ('rfc.problem' -> 'rfc'; `complete`
\* has no dot)
IdHead ==
  [ rfc_problem           |-> "rfc",
    rfc_goals             |-> "rfc",
    rfc_approach          |-> "rfc",
    rfc_interfaces        |-> "rfc",
    rfc_alternatives      |-> "rfc",
    rfc_complete          |-> "rfc",
    plan_stages           |-> "plan",
    plan_criteria         |-> "plan",
    plan_complete         |-> "plan",
    rollout_risks         |-> "rollout",
    rollout_observability |-> "rollout",
    rollout_procedures    |-> "rollout",
    rollout_complete      |-> "rollout",
    prompts_generate      |-> "prompts",
    complete              |-> "complete" ]

\* stepId.startsWith(phase), for the phase names the agents pass: none of them
\* is a proper prefix of another id's head
startsWith(stepId, phase) == IdHead[stepId] = phase

\* JavaScript truthiness of an optional string: undefined and '' are falsy
Truthy(text) == text # Null /\ text # ""

\* the line getRelevantFeedback writes for one response: its stepId and the
\* labelled parts, one per truthy field, in the order the code pushes them
FeedbackLine(r) ==
  [ stepId |-> r.stepId,
    parts  |-> (IF Truthy(r.disagreements)
                  THEN << <<"Disagreement", r.disagreements>> >> ELSE <<>>)
               \o (IF Truthy(r.clarifications)
                    THEN << <<"Clarification needed", r.clarifications>> >> ELSE <<>>)
               \o (IF Truthy(r.missedConstraints)
                    THEN << <<"Missed constraint", r.missedConstraints>> >> ELSE <<>>) ]

FeedbackHeader == [stepId |-> "User Feedback from previous steps:", parts |-> <<>>]

\* a feedback that reports the latest matching response only
getRelevantFeedback_latestOnly(state, phase) ==
  LET relevantResponses ==
        SelectSeq(SelectSeq(state.checkpointResponses,
                            LAMBDA r : startsWith(r.stepId, phase)),
                  LAMBDA r : Truthy(r.disagreements) \/ Truthy(r.clarifications)
                             \/ Truthy(r.missedConstraints))
  IN IF Len(relevantResponses) = 0 THEN <<>>
     ELSE <<FeedbackHeader, FeedbackLine(relevantResponses[Len(relevantResponses)])>>

\* BaseAgent.getRelevantFeedback: '' (the empty sequence) when no response of
\* the phase carries a truthy field, else the header followed by one line per
\* such response
getRelevantFeedback(state, phase) ==
  LET relevantResponses ==
        SelectSeq(SelectSeq(state.checkpointResponses,
                            LAMBDA r : startsWith(r.stepId, phase)),
                  LAMBDA r : Truthy(r.disagreements) \/ Truthy(r.clarifications)
                             \/ Truthy(r.missedConstraints))
  IN IF Len(relevantResponses) = 0 THEN <<>>
     ELSE <<FeedbackHeader>>
          \o [k \in 1..Len(relevantResponses) |-> FeedbackLine(relevantResponses[k])]

(***************************************************************************)
(* The commands                                                            *)
(***************************************************************************)
VARIABLES
  fileStatus,    \* "absent" or "ok": is there a state record at the location
  disk,          \* the persisted state record
  cmd,           \* the command being run ("none" before the first one)
  pc,            \* the position of the running command
  opts,          \* its options
  mem,           \* its in-memory `state`
  resumedAt,     \* continue: the step it announced as "Resuming at"
  queue,         \* approve: docsToApprove still to be handled
  outcomes,      \* approve: what approveDocument did for each document
  exitCode,      \* exit status of the command, -1 while it runs
  said,          \* messages the command printed
  ncmds,         \* number of commands started
  everApproved,  \* history: the hashes recordApproval has stored per document
  wpc,           \* racing writers: position of each
  wop,           \* racing writers: the store call each one makes
  wsnap,         \* racing writers: the state each one loaded
  wlog,          \* racing writers: the order of loads and saves
  file,          \* store calls: .docforge/state.json as text
  calls,         \* store calls: the calls made so far, with what each found and gave
  walk,          \* step graph: the steps visited from the first one by `next`
  probe          \* step graph: the latest query and its answer

vars == <<fileStatus, disk, cmd, pc, opts, mem, resumedAt, queue, outcomes, exitCode, said,
          ncmds, everApproved, wpc, wop, wsnap, wlog,
          file, calls, walk, probe>>

storeVars == <<file, calls>>

machineVars == <<walk, probe>>

cmdVars == <<cmd, pc, opts, mem, resumedAt, queue, outcomes, exitCode, said, ncmds, everApproved>>

raceVars == <<wpc, wop, wsnap, wlog>>

Projects == {"P", "Q"}

NoOpts == [auto |-> FALSE, force |-> FALSE, target |-> "none"]

NoOutcomes == [t \in DocTypes |-> "none"]

Writers == {1, 2}

NoAnswers == [disagreements |-> "", clarifications |-> "", missedConstraints |-> ""]

\* a writer that has not called the store yet
NoOp == [kind |-> "none", documentType |-> "none", content |-> "none",
         stepId |-> "none", answers |-> NoAnswers]

\* a project directory left at `stepId` by earlier sessions: every step
\* before it has generated its fields
RECURSIVE ProgressUpTo(_, _, _)
ProgressUpTo(state, from, to) ==
  IF from = to THEN state
  ELSE ProgressUpTo(IF from \in HandledSteps THEN Generated(state, from, 1) ELSE state,
                    STEPS[from].next, to)

ResumedState(stepId, strict) ==
  [ProgressUpTo(createInitialState("P"), FirstStep, stepId)
     EXCEPT !.currentStep = stepId, !.strictMode = strict]

\* what `state` holds before a command has loaded anything
Blank == createInitialState("P")

Idle == pc \in {"idle", "done"} /\ ncmds < MaxCmds

StoreUntouched ==
  /\ file = NoFile
  /\ calls = <<>>

\* no query made yet
NoProbe == [fn |-> "none", step |-> FirstStep, phase |-> "rfc",
            answer |-> FALSE, number |-> 0, steps |-> <<>>,
            doc |-> "rfc", content |-> <<>>, strict |-> FALSE, result |-> <<>>]

MachineUntouched ==
  /\ walk = <<FirstStep>>
  /\ probe = NoProbe

Init ==
  /\ \/ fileStatus = "absent" /\ disk = Blank
     \/ /\ fileStatus = "ok"
        /\ \E stepId \in StepId, strict \in BOOLEAN : disk = ResumedState(stepId, strict)
  /\ cmd = "none"
  /\ pc = "idle"
  /\ opts = NoOpts
  /\ mem = Blank
  /\ resumedAt = "none"
  /\ queue = <<>>
  /\ outcomes = NoOutcomes
  /\ exitCode = -1
  /\ said = {}
  /\ ncmds = 0
  /\ everApproved = [t \in DocTypes |-> {}]
  /\ wpc = [w \in Writers |-> "idle"]
  /\ wop = [w \in Writers |-> NoOp]
  /\ wsnap = [w \in Writers |-> Blank]
  /\ wlog = <<>>
  /\ StoreUntouched
  /\ MachineUntouched

\* a command starts: fresh process, nothing carried over but the state file
Start(name, options) ==
  /\ Idle
  /\ cmd' = name
  /\ opts' = options
  /\ ncmds' = ncmds + 1
  /\ resumedAt' = IF name = "continue" /\ fileStatus = "ok" THEN disk.currentStep ELSE "none"
  /\ outcomes' = NoOutcomes

\* process.exit(code) / return from the action handler
Exit(code, messages) ==
  /\ pc' = "done"
  /\ exitCode' = code
  /\ said' = messages

\* docforge init [--strict]
InitCommand ==
  \E project \in Projects, strict \in BOOLEAN :
    /\ Start("init", NoOpts)
    /\ IF fileStatus = "ok"
       THEN /\ Exit(1, {"A DocForge project already exists in this directory."})
            /\ mem' = Blank
            /\ UNCHANGED <<fileStatus, disk>>
       ELSE /\ fileStatus' = "ok"
            /\ mem' = [createInitialState(project) EXCEPT !.strictMode = strict]
            /\ disk' = mem'
            /\ Exit(0, {"Project initialized!"})
    /\ UNCHANGED <<queue, everApproved, raceVars, storeVars, machineVars>>

\* what the operator types at the checkpoint questions
AnswerSet ==
  { NoAnswers,
    [disagreements |-> "d", clarifications |-> "", missedConstraints |-> "m"] }

\* a continue that goes on to generate whether or not a provider is configured
ContinueStartWith_ignoresProvider(auto, providerConfigured) ==
  /\ Start("continue", [NoOpts EXCEPT !.auto = auto])
  /\ IF fileStatus # "ok"
     THEN /\ mem' = Blank
          /\ Exit(1, {"No DocForge project found."})
     ELSE /\ mem' = disk
          /\ IF disk.currentStep = "complete"
             THEN Exit(0, {"All documents have been generated!"})
             ELSE pc' = "generate" /\ exitCode' = -1 /\ said' = {}
  /\ UNCHANGED <<fileStatus, disk, queue, everApproved, raceVars, storeVars, machineVars>>

\* a continue without the test for a finished project
ContinueStartWith_noCompleteCheck(auto, providerConfigured) ==
  /\ Start("continue", [NoOpts EXCEPT !.auto = auto])
  /\ IF fileStatus # "ok"
     THEN /\ mem' = Blank
          /\ Exit(1, {"No DocForge project found."})
     ELSE /\ mem' = disk
          /\ IF ~providerConfigured
             THEN Exit(1, {"Provider is not configured."})
             ELSE pc' = "generate" /\ exitCode' = -1 /\ said' = {}
  /\ UNCHANGED <<fileStatus, disk, queue, everApproved, raceVars, storeVars, machineVars>>

\* docforge continue [--auto]: load the state, find the provider
ContinueStartWith(auto, providerConfigured) ==
  /\ Start("continue", [NoOpts EXCEPT !.auto = auto])
  /\ IF fileStatus # "ok"
     THEN /\ mem' = Blank
          /\ Exit(1, {"No DocForge project found."})
     ELSE /\ mem' = disk
          /\ IF disk.currentStep = "complete"
             THEN Exit(0, {"All documents have been generated!"})
             ELSE IF ~providerConfigured
             THEN Exit(1, {"Provider is not configured."})
             ELSE pc' = "generate" /\ exitCode' = -1 /\ said' = {}
  /\ UNCHANGED <<fileStatus, disk, queue, everApproved, raceVars, storeVars, machineVars>>

\* with or without --auto, the provider's API key set in the environment or not
ContinueStart ==
  \E auto \in BOOLEAN, providerConfigured \in BOOLEAN :
    ContinueStartWith(auto, providerConfigured)

\* a continue that runs the checkpoint interaction after every generation
ContinueGenerate_alwaysAsks ==
  \E result \in 0..MaxGen :
    /\ pc = "generate"
    /\ IF GenerateThrows(mem, mem.currentStep, result)
       THEN /\ Exit(1, {GenerateError(mem, mem.currentStep)})
            /\ UNCHANGED <<mem, disk>>
       ELSE /\ mem' = Generated(mem, mem.currentStep, result)
            /\ disk' = IF getPhase(mem.currentStep) = "prompts" THEN disk ELSE mem'
            /\ pc' = "checkpoint"
            /\ UNCHANGED <<exitCode, said>>
    /\ UNCHANGED <<fileStatus, cmd, opts, resumedAt, queue, outcomes, ncmds, everApproved, raceVars, storeVars, machineVars>>

\* agent.generateStep(state, state.currentStep)
ContinueGenerate ==
  \E result \in 0..MaxGen :
    /\ pc = "generate"
    /\ IF GenerateThrows(mem, mem.currentStep, result)
       THEN /\ Exit(1, {GenerateError(mem, mem.currentStep)})
            /\ UNCHANGED <<mem, disk>>
       ELSE /\ mem' = Generated(mem, mem.currentStep, result)
            /\ disk' = IF getPhase(mem.currentStep) = "prompts" THEN disk ELSE mem'
            /\ pc' = IF isCheckpoint(mem.currentStep) /\ ~opts.auto
                     THEN "checkpoint" ELSE "advance"
            /\ UNCHANGED <<exitCode, said>>
    /\ UNCHANGED <<fileStatus, cmd, opts, resumedAt, queue, outcomes, ncmds, everApproved, raceVars, storeVars, machineVars>>

\* a checkpoint that records the answers only when the operator goes on
ContinueCheckpoint_recordsOnlyOnContinue ==
  \E answers \in AnswerSet, shouldContinue \in BOOLEAN :
    /\ pc = "checkpoint"
    /\ IF ~shouldContinue
       THEN /\ UNCHANGED disk
            /\ Exit(0, {"Stopped at checkpoint."})
       ELSE /\ disk' = ResponseRecorded(disk, mem.currentStep,
                                        OrNull(answers.disagreements),
                                        OrNull(answers.clarifications),
                                        OrNull(answers.missedConstraints))
            /\ pc' = "advance"
            /\ UNCHANGED <<exitCode, said>>
    /\ UNCHANGED <<fileStatus, cmd, opts, mem, resumedAt, queue, outcomes, ncmds, everApproved, raceVars, storeVars, machineVars>>

\* runCheckpoint: ask, then recordCheckpointResponse (load, push, save)
ContinueCheckpoint ==
  \E answers \in AnswerSet, shouldContinue \in BOOLEAN :
    /\ pc = "checkpoint"
    /\ disk' = ResponseRecorded(disk, mem.currentStep,
                                OrNull(answers.disagreements),
                                OrNull(answers.clarifications),
                                OrNull(answers.missedConstraints))
    /\ IF ~shouldContinue
       THEN Exit(0, {"Stopped at checkpoint."})
       ELSE pc' = "advance" /\ UNCHANGED <<exitCode, said>>
    /\ UNCHANGED <<fileStatus, cmd, opts, mem, resumedAt, queue, outcomes, ncmds, everApproved, raceVars, storeVars, machineVars>>

\* advance to the next step and save the command's `state`
ContinueAdvance ==
  /\ pc = "advance"
  /\ LET nextStep == getNextStep(mem.currentStep)
     IN IF nextStep # Null
        THEN /\ mem' = [mem EXCEPT !.currentStep = nextStep]
             /\ disk' = mem'
        ELSE UNCHANGED <<mem, disk>>
  /\ Exit(0, IF mem'.currentStep = "complete"
             THEN {"All documents generated!"} ELSE {"Next step"})
  /\ UNCHANGED <<fileStatus, cmd, opts, resumedAt, queue, outcomes, ncmds, everApproved, raceVars, storeVars, machineVars>>

\* docsToApprove
DocsToApprove(target) ==
  IF target = "all" THEN <<"rfc", "plan", "rollout">> ELSE <<target>>

\* docforge approve <document> [--force] [--skip-critic]: load the state,
\* check the argument, run the critic.  critic = "clear" stands for every
\* way past the critic: --skip-critic, no provider available, a review that
\* passed, a critic that threw (caught, warning only).
ApproveStart ==
  \E target \in DocTypes \cup {"all", "bogus"}, force \in BOOLEAN,
     critic \in {"clear", "issues"} :
    /\ Start("approve", [NoOpts EXCEPT !.force = force, !.target = target])
    /\ IF fileStatus # "ok"
       THEN /\ mem' = Blank
            /\ Exit(1, {"No DocForge project found."})
       ELSE /\ mem' = disk
            /\ IF target \notin DocTypes \cup {"all"}
               THEN Exit(1, {"Unknown document"})
               ELSE IF critic = "issues" /\ ~force
               THEN Exit(1, {"Approval blocked due to consistency issues."})
               ELSE pc' = "approveDocs" /\ exitCode' = -1 /\ said' = {}
    /\ queue' = IF pc' = "approveDocs" THEN DocsToApprove(target) ELSE <<>>
    /\ UNCHANGED <<fileStatus, disk, everApproved, raceVars, storeVars, machineVars>>

\* a decision in which --force also overrides the not-yet-generated test
ApproveDecision_forceOverridesSkip(state, docType, force) ==
  LET content == Render(docType, state)
      validation == validateDocumentByType(docType, content)
  IN IF ~content.long /\ ~force THEN "skipped"
     ELSE IF ~validation.valid /\ ~strictModeCheck(state, docType, content).passes /\ ~force
     THEN "blocked"
     ELSE "approved"

\* what approveDocument decides for the document it is given
ApproveDecision(state, docType, force) ==
  LET content == Render(docType, state)
      validation == validateDocumentByType(docType, content)
  IN IF ~content.long THEN "skipped"
     ELSE IF ~validation.valid /\ ~strictModeCheck(state, docType, content).passes /\ ~force
     THEN "blocked"
     ELSE "approved"

\* one iteration of `for (const docType of docsToApprove) approveDocument(..)`
ApproveDocument ==
  /\ pc = "approveDocs"
  /\ queue # <<>>
  /\ LET docType == Head(queue)
         content == Render(docType, mem)
         decision == ApproveDecision(mem, docType, opts.force)
     IN /\ outcomes' = [outcomes EXCEPT ![docType] = decision]
        /\ IF decision = "approved"
           THEN /\ disk' = ApprovalRecorded(disk, docType, content)
                /\ everApproved' = [everApproved EXCEPT
                                      ![docType] = @ \cup {calculateHash(content)}]
           ELSE UNCHANGED <<disk, everApproved>>
  /\ queue' = Tail(queue)
  /\ UNCHANGED <<fileStatus, cmd, pc, opts, mem, resumedAt, exitCode, said, ncmds, raceVars, storeVars, machineVars>>

\* after the loop: "Approval complete!" and the all-approved hint
ApproveFinish ==
  /\ pc = "approveDocs"
  /\ queue = <<>>
  /\ Exit(0, {"Approval complete!"} \cup
             (IF areAllDocumentsApproved(mem) THEN {"All documents approved."} ELSE {}))
  /\ UNCHANGED <<fileStatus, disk, cmd, opts, mem, resumedAt, queue, outcomes, ncmds,
                 everApproved, raceVars, storeVars, machineVars>>

\* a prompts command that does not ask whether the documents are approved
PromptsCommand_ungated ==
  \E force \in BOOLEAN, stage \in {"all", "found", "notfound", "nan"} :
    /\ Start("prompts", [NoOpts EXCEPT !.force = force, !.target = stage])
    /\ IF fileStatus # "ok"
       THEN /\ mem' = Blank
            /\ Exit(1, {"No DocForge project found."})
            /\ UNCHANGED disk
       ELSE IF disk.documentProgress["plan"]["stages"] = 0
       THEN /\ mem' = disk
            /\ Exit(1, {"No stages defined in PLAN."})
            /\ UNCHANGED disk
       ELSE IF stage # "all"
       THEN /\ mem' = disk
            /\ IF stage = "found"
               THEN Exit(0, {"Regenerated"})
               ELSE Exit(1, {"Invalid stage"})
            /\ UNCHANGED disk
       ELSE /\ mem' = [disk EXCEPT !.currentStep = "complete"]
            /\ disk' = mem'
            /\ Exit(0, {"All stage prompts generated!"})
    /\ UNCHANGED <<fileStatus, queue, everApproved, raceVars, storeVars, machineVars>>

\* docforge prompts [--force] [--stage n]
PromptsCommand ==
  \E force \in BOOLEAN, stage \in {"all", "found", "notfound", "nan"} :
    /\ Start("prompts", [NoOpts EXCEPT !.force = force, !.target = stage])
    /\ IF fileStatus # "ok"
       THEN /\ mem' = Blank
            /\ Exit(1, {"No DocForge project found."})
            /\ UNCHANGED disk
       ELSE IF ~areAllDocumentsApproved(disk) /\ ~force
       THEN /\ mem' = disk
            /\ Exit(1, {"Not all documents are approved."})
            /\ UNCHANGED disk
       ELSE IF disk.documentProgress["plan"]["stages"] = 0
       THEN /\ mem' = disk
            /\ Exit(1, {"No stages defined in PLAN."})
            /\ UNCHANGED disk
       ELSE IF stage # "all"
       THEN /\ mem' = disk
            /\ IF stage = "found"
               THEN Exit(0, {"Regenerated"})
               ELSE Exit(1, {"Invalid stage"})
            /\ UNCHANGED disk
       ELSE /\ mem' = [disk EXCEPT !.currentStep = "complete"]
            /\ disk' = mem'
            /\ Exit(0, {"All stage prompts generated!"})
    /\ UNCHANGED <<fileStatus, queue, everApproved, raceVars, storeVars, machineVars>>

\* docforge review: read-only
ReviewCommand ==
  /\ Start("review", NoOpts)
  /\ IF fileStatus # "ok"
     THEN mem' = Blank /\ Exit(1, {"No DocForge project found."})
     ELSE mem' = disk /\ Exit(0, {"Project Status"})
  /\ UNCHANGED <<fileStatus, disk, queue, everApproved, raceVars, storeVars, machineVars>>

Next ==
  \/ InitCommand
  \/ ContinueStart
  \/ ContinueGenerate
  \/ ContinueCheckpoint
  \/ ContinueAdvance
  \/ ApproveStart
  \/ ApproveDocument
  \/ ApproveFinish
  \/ PromptsCommand
  \/ ReviewCommand

Spec == Init /\ [][Next]_vars

(***************************************************************************)
(* Two callers of the store against the same location.  Each store call    *)
(* is a load followed, after an await, by a save; nothing orders the two   *)
(* callers.                                                                *)
(***************************************************************************)
\* the locations the callers race on: none, a fresh project, one under way
InitRace ==
  /\ \/ fileStatus = "absent" /\ disk = Blank
     \/ fileStatus = "ok" /\ disk \in {Blank, ResumedState("rfc_goals", TRUE)}
  /\ cmd = "none"
  /\ pc = "idle"
  /\ opts = NoOpts
  /\ mem = Blank
  /\ resumedAt = "none"
  /\ queue = <<>>
  /\ outcomes = NoOutcomes
  /\ exitCode = -1
  /\ said = {}
  /\ ncmds = 0
  /\ everApproved = [t \in DocTypes |-> {}]
  /\ wpc = [w \in Writers |-> "idle"]
  /\ wop = [w \in Writers |-> NoOp]
  /\ wsnap = [w \in Writers |-> Blank]
  /\ wlog = <<>>
  /\ StoreUntouched
  /\ MachineUntouched

\* texts a caller may pass to recordApproval
SampleTexts(documentType) ==
  {Render(documentType, ResumedState(stepId, FALSE)) : stepId \in {"rfc_goals", "complete"}}

\* the store calls a writer may make
WriterOps ==
  { [kind |-> "recordApproval", documentType |-> t, content |-> c,
     stepId |-> "none", answers |-> a] :
      t \in {"rfc", "plan"}, c \in SampleTexts("rfc"),
      a \in {NoAnswers} }
  \cup
  { [kind |-> "recordCheckpointResponse", documentType |-> "none", content |-> c,
     stepId |-> "rfc_problem", answers |-> a] :
      c \in {Render("rfc", Blank)}, a \in AnswerSet \ {NoAnswers} }

\* the state a store call saves, given the state its load returned
Modified(op, state) ==
  IF op.kind = "recordApproval"
  THEN ApprovalRecorded(state, op.documentType, op.content)
  ELSE ResponseRecorded(state, op.stepId,
                        OrNull(op.answers.disagreements),
                        OrNull(op.answers.clarifications),
                        OrNull(op.answers.missedConstraints))

OpsStarted(w) == Len(SelectSeq(wlog, LAMBDA e : e[1] = w /\ e[2] = "load"))

\* `const state = await loadState(cwd)` of a store call
WLoad(w) ==
  /\ wpc[w] \in {"idle", "done"}
  /\ OpsStarted(w) < MaxWriterOps
  /\ \E op \in WriterOps : wop' = [wop EXCEPT ![w] = op]
  /\ IF fileStatus = "ok"
     THEN /\ wsnap' = [wsnap EXCEPT ![w] = disk]
          /\ wpc' = [wpc EXCEPT ![w] = "loaded"]
     ELSE /\ wpc' = [wpc EXCEPT ![w] = "failed"]
          /\ UNCHANGED wsnap
  /\ wlog' = Append(wlog, <<w, "load">>)
  /\ UNCHANGED <<fileStatus, disk, cmdVars, storeVars, machineVars>>

\* `await saveState(state, cwd)` of a store call: the whole file is rewritten
WSave(w) ==
  /\ wpc[w] = "loaded"
  /\ disk' = Modified(wop[w], wsnap[w])
  /\ wpc' = [wpc EXCEPT ![w] = "done"]
  /\ wlog' = Append(wlog, <<w, "save">>)
  /\ UNCHANGED <<fileStatus, cmdVars, wop, wsnap, storeVars, machineVars>>

NextRace == \E w \in Writers : WLoad(w) \/ WSave(w)

RaceSpec == InitRace /\ [][NextRace]_vars

(***************************************************************************)
(* The store on its own: one caller making store calls one after another   *)
(* against a location, and a save that is cut short (the process is        *)
(* killed, the device fills up) after any number of tokens.                *)
(***************************************************************************)
\* a project under way: an approval on record and a checkpoint response
\* with unanswered questions
Seeded ==
  LET s == ResumedState("plan_criteria", TRUE)
  IN ResponseRecorded(ApprovalRecorded(s, "rfc", Render("rfc", s)),
                      "rfc_problem", Null, "c", Null)

\* well-formed states a caller may hold
StoreStates == {Blank, ResumedState("rfc_goals", FALSE), Seeded}

\* partial states a caller may pass to updateState
UpdateSet ==
  { [currentStep |-> "plan_stages"],
    [documentProgress |-> [EmptyProgress EXCEPT !["rfc"]["goals"] = 2]],
    [strictMode |-> TRUE, checkpointResponses |-> <<>>] }

\* the location before the first call: nothing there, a record, or a record
\* the caller may not read
InitStore ==
  /\ \/ file = NoFile
     \/ \E s \in StoreStates, readable \in BOOLEAN :
          file = [exists |-> TRUE, readable |-> readable, content |-> JSON_stringify(s)]
  /\ calls = <<>>
  /\ fileStatus = "absent"
  /\ disk = Blank
  /\ cmd = "none"
  /\ pc = "idle"
  /\ opts = NoOpts
  /\ mem = Blank
  /\ resumedAt = "none"
  /\ queue = <<>>
  /\ outcomes = NoOutcomes
  /\ exitCode = -1
  /\ said = {}
  /\ ncmds = 0
  /\ everApproved = [t \in DocTypes |-> {}]
  /\ wpc = [w \in Writers |-> "idle"]
  /\ wop = [w \in Writers |-> NoOp]
  /\ wsnap = [w \in Writers |-> Blank]
  /\ wlog = <<>>
  /\ MachineUntouched

\* a call is made: the log gets what it was given, found, left and returned
Called(op, state, updates, written, after, result) ==
  /\ Len(calls) < MaxStoreOps
  /\ file' = after
  /\ calls' = Append(calls, [op |-> op, state |-> state, updates |-> updates,
                             written |-> written, before |-> file, after |-> after,
                             ret |-> result, args |-> <<>>])
  /\ UNCHANGED <<fileStatus, disk, cmdVars, raceVars, machineVars>>

\* the same for the calls that take other arguments
CalledWith(op, args, after, result) ==
  /\ Len(calls) < MaxStoreOps
  /\ file' = after
  /\ calls' = Append(calls, [op |-> op, state |-> Blank, updates |-> <<>>,
                             written |-> 0, before |-> file, after |-> after,
                             ret |-> result, args |-> args])
  /\ UNCHANGED <<fileStatus, disk, cmdVars, raceVars, machineVars>>

CallProjectExists ==
  Called("projectExists", Blank, <<>>, 0, file, Returned(projectExists(file)))

CallInitializeProject ==
  \E project \in Projects :
    LET r == initializeProject(file, project)
    IN Called("initializeProject", createInitialState(project), <<>>, 0, r.file, r.ret)

CallLoadState ==
  Called("loadState", Blank, <<>>, 0, file, loadState(file))

CallSaveState ==
  \E state \in StoreStates :
    LET r == saveState(file, state)
    IN Called("saveState", state, <<>>, Len(JSON_stringify(state)), r.file, r.ret)

\* saveState whose writeFile does not get to the end
SaveStateCut ==
  \E state \in StoreStates :
    \E written \in 0..(Len(JSON_stringify(state)) - 1) :
      /\ ~Denied(file)
      /\ Called("saveState", state, <<>>, written,
             writeFileCut(file, JSON_stringify(state), written),
             [kind |-> "cut", message |-> "", value |-> <<>>])

CallUpdateState ==
  \E updates \in UpdateSet :
    LET r == updateState(file, updates)
    IN Called("updateState", Blank, updates, 0, r.file, r.ret)

\* the responses given to recordCheckpointResponse: <<stepId, disagreements,
\* clarifications, missedConstraints>>, Null for a field that is not set
ResponseSet ==
  { <<"rfc_problem",   "d",  Null, Null>>,
    <<"rfc_problem",   Null, Null, Null>>,
    <<"plan_stages",   "",   "c",  "">>,
    <<"rollout_risks", Null, Null, "m">> }

CallRecordCheckpointResponse ==
  \E a \in ResponseSet :
    LET r == recordCheckpointResponse(file, a[1], a[2], a[3], a[4])
    IN CalledWith("recordCheckpointResponse", a, r.file, r.ret)

\* a document file as it is read for approval: the text `content` with the
\* line endings and the surrounding whitespace the file has
Written(content, eol, padded) ==
  [ doc    |-> content.doc,
    secs   |-> content.secs,
    body   |-> content.body,
    long   |-> content.long,
    eol    |-> eol,
    padded |-> padded ]

\* content.replace(/\r\n/g, '\n').trim()
Normalized(content) == [content EXCEPT !.eol = "lf", !.padded = FALSE]

\* calculateContentHash: the hash of the normalized text (hasDocumentChanged
\* and recordApproval do not call it)
calculateContentHash(content) == calculateHash(Normalized(content))

contentEquals(a, b) == calculateContentHash(a) = calculateContentHash(b)

\* the documents given to recordApproval: <<documentType, content>>
ApprovalSet ==
  { <<t, Written(Render(t, Seeded), e[1], e[2])>> :
      t \in {"rfc", "plan"}, e \in {<<"lf", FALSE>>, <<"crlf", TRUE>>} }

CallRecordApproval ==
  \E a \in ApprovalSet :
    LET r == recordApproval(file, a[1], a[2])
    IN CalledWith("recordApproval", a, r.file, r.ret)

\* the phases the agents ask feedback for (rfc, plan and rollout agents)
FeedbackPhases == {"rfc", "plan", "rollout"}

\* an agent building its prompt from the state `continue` loaded
AskRelevantFeedback ==
  \E phase \in FeedbackPhases :
    /\ loadState(file).kind = "ok"
    /\ CalledWith("getRelevantFeedback", <<phase>>, file,
                  Returned(getRelevantFeedback(loadState(file).value, phase)))

NextStore ==
  \/ CallProjectExists
  \/ CallInitializeProject
  \/ CallLoadState
  \/ CallSaveState
  \/ SaveStateCut
  \/ CallUpdateState
  \/ CallRecordCheckpointResponse
  \/ CallRecordApproval
  \/ AskRelevantFeedback

StoreSpec == InitStore /\ [][NextStore]_vars

\* the latest store call
LastCall == calls[Len(calls)]

(***************************************************************************)
(* The step graph on its own: following `next` from the first step, and    *)
(* the queries of state/machine.ts asked of a state at any step.           *)
(***************************************************************************)
InitMachine ==
  /\ walk = <<FirstStep>>
  /\ probe = NoProbe
  /\ fileStatus = "absent"
  /\ disk = Blank
  /\ cmd = "none"
  /\ pc = "idle"
  /\ opts = NoOpts
  /\ mem = Blank
  /\ resumedAt = "none"
  /\ queue = <<>>
  /\ outcomes = NoOutcomes
  /\ exitCode = -1
  /\ said = {}
  /\ ncmds = 0
  /\ everApproved = [t \in DocTypes |-> {}]
  /\ wpc = [w \in Writers |-> "idle"]
  /\ wop = [w \in Writers |-> NoOp]
  /\ wsnap = [w \in Writers |-> Blank]
  /\ wlog = <<>>
  /\ StoreUntouched

MachineFrame == UNCHANGED <<fileStatus, disk, cmdVars, raceVars, storeVars>>

\* one more getNextStep from the step reached last
FollowNext ==
  /\ Len(walk) < MaxWalk
  /\ getNextStep(walk[Len(walk)]) # Null
  /\ walk' = Append(walk, getNextStep(walk[Len(walk)]))
  /\ UNCHANGED probe
  /\ MachineFrame

\* isPhaseComplete(state, phase) for a state at any step
AskIsPhaseComplete ==
  \E stepId \in StepId, phase \in {"rfc", "plan", "rollout"} :
    /\ probe' = [NoProbe EXCEPT !.fn = "isPhaseComplete", !.step = stepId, !.phase = phase,
                    !.answer = isPhaseComplete([Blank EXCEPT !.currentStep = stepId], phase)]
    /\ UNCHANGED walk
    /\ MachineFrame

\* getProgressPercentage(state) for a state at any step
AskGetProgressPercentage ==
  \E stepId \in StepId :
    /\ probe' = [NoProbe EXCEPT !.fn = "getProgressPercentage", !.step = stepId,
                    !.number = getProgressPercentage([Blank EXCEPT !.currentStep = stepId])]
    /\ UNCHANGED walk
    /\ MachineFrame

\* getPhaseSteps(phase)
AskGetPhaseSteps ==
  \E phase \in {"rfc", "plan", "rollout", "prompts"} :
    /\ probe' = [NoProbe EXCEPT !.fn = "getPhaseSteps", !.phase = phase,
                    !.steps = getPhaseSteps(phase)]
    /\ UNCHANGED walk
    /\ MachineFrame

\* getRemainingSteps(state) for a state at any step
AskGetRemainingSteps ==
  \E stepId \in StepId :
    /\ probe' = [NoProbe EXCEPT !.fn = "getRemainingSteps", !.step = stepId,
                    !.number = getRemainingSteps([Blank EXCEPT !.currentStep = stepId])]
    /\ UNCHANGED walk
    /\ MachineFrame

NextMachine ==
  \/ FollowNext
  \/ AskIsPhaseComplete
  \/ AskGetProgressPercentage
  \/ AskGetPhaseSteps
  \/ AskGetRemainingSteps

MachineSpec == InitMachine /\ [][NextMachine]_vars

(***************************************************************************)
(* The validation functions, asked about document texts with any           *)
(* combination of the sections of their type (a document is a file the     *)
(* user may edit).                                                         *)
(***************************************************************************)
\* the section requirements of a document type
SectionsOf(documentType) ==
  CASE documentType = "rfc"     -> RFC_SECTIONS
    [] documentType = "plan"    -> PLAN_SECTIONS
    [] documentType = "rollout" -> ROLLOUT_SECTIONS

\* the texts of a type, told apart by the requirements their lines match
TextsOf(documentType) ==
  LET names == {SectionsOf(documentType)[i].name : i \in 1..Len(SectionsOf(documentType))}
  IN { [doc |-> documentType, secs |-> matched, body |-> <<>>, long |-> TRUE] :
         matched \in SUBSET names }

InitValidation == InitMachine

\* validateDocumentByType(documentType, content)
AskValidate ==
  \E documentType \in DocTypes :
    \E content \in TextsOf(documentType) :
      /\ probe' = [NoProbe EXCEPT !.fn = "validateDocumentByType", !.doc = documentType,
                      !.content = content,
                      !.result = validateDocumentByType(documentType, content)]
      /\ UNCHANGED walk
      /\ MachineFrame

\* strictModeCheck(state, documentType, content), strict mode on or off
AskStrictModeCheck ==
  \E documentType \in DocTypes, strictMode \in BOOLEAN :
    \E content \in TextsOf(documentType) :
      /\ probe' = [NoProbe EXCEPT !.fn = "strictModeCheck", !.doc = documentType,
                      !.content = content, !.strict = strictMode,
                      !.result = strictModeCheck([Blank EXCEPT !.strictMode = strictMode],
                                                 documentType, content)]
      /\ UNCHANGED walk
      /\ MachineFrame

NextValidation ==
  \/ AskValidate
  \/ AskStrictModeCheck

ValidationSpec == InitValidation /\ [][NextValidation]_vars

(***************************************************************************)
(* Properties                                                              *)
(***************************************************************************)
ApprovalsFor(state, documentType) ==
  SelectSeq(state.approvals, LAMBDA a : a.documentType = documentType)

IsPrefix(s, t) == Len(s) <= Len(t) /\ \A i \in 1..Len(s) : s[i] = t[i]

\* C1: the persisted currentStep never moves to an earlier step of the
\* successor chain, whatever command runs.
C1_MonotonicProgression ==
  [][(fileStatus = "ok" /\ fileStatus' = "ok")
       => StepIndex(disk'.currentStep) >= StepIndex(disk.currentStep)]_vars

\* a second command has advanced the persisted step
C1_Witness ==
  /\ ncmds >= 2
  /\ pc = "done"
  /\ exitCode = 0
  /\ \/ cmd = "continue" /\ "Next step" \in said /\ disk.currentStep = getNextStep(resumedAt)
     \/ cmd = "prompts" /\ "All stage prompts generated!" \in said /\ disk.currentStep = "complete"

\* the operator or the collaborator kept a `continue` from advancing
ContinueHeldBack ==
  said \cap {"No DocForge project found.", "Provider is not configured.",
             "Error: generation failed", "Stopped at checkpoint."} # {}

\* C2: a `continue` resumed at an RFC step, with the provider configured,
\* generation succeeding and the checkpoint answered 'continue' or skipped by
\* --auto, leaves currentStep one step further; resumed at the last RFC step
\* it leaves currentStep = plan.stages with isPhaseComplete(state,'rfc').
C2_RfcAdvancesToPlan ==
  (/\ cmd = "continue"
   /\ pc = "done"
   /\ resumedAt # "none"
   /\ getPhase(resumedAt) = "rfc"
   /\ ~ContinueHeldBack)
  => /\ disk.currentStep = getNextStep(resumedAt)
     /\ resumedAt = "rfc_complete"
          => disk.currentStep = "plan_stages" /\ isPhaseComplete(disk, "rfc")

\* C3: a CheckpointResponse once persisted stays in checkpointResponses, at
\* the same position with the same content, through every later write.
C3_CheckpointHistoryAppendOnly ==
  [][(fileStatus = "ok" /\ fileStatus' = "ok")
       => IsPrefix(disk.checkpointResponses, disk'.checkpointResponses)]_vars

\* C4: the persisted state never holds two Approvals for one documentType,
\* and once approveDocument has recorded a document the single Approval of
\* that type carries the hash of the content just approved.
C4_OneApprovalPerType ==
  \A t \in DocTypes :
    /\ Len(ApprovalsFor(disk, t)) <= 1
    /\ (cmd = "approve" /\ outcomes[t] = "approved")
         => /\ Len(ApprovalsFor(disk, t)) = 1
            /\ ApprovalsFor(disk, t)[1].contentHash = calculateHash(Render(t, mem))

\* a document approved earlier with other content has been approved again
C4_Witness ==
  \E t \in DocTypes :
    /\ cmd = "approve"
    /\ outcomes[t] = "approved"
    /\ \E h \in everApproved[t] : h # calculateHash(Render(t, mem))

\* approveDocument has handled a generated document that lacks a required
\* section, in a strict-mode project
StrictCase(t) ==
  /\ cmd = "approve"
  /\ outcomes[t] # "none"
  /\ mem.strictMode
  /\ Render(t, mem).long
  /\ ~validateDocumentByType(t, Render(t, mem)).valid

\* C5: in strict mode a document missing a required section is blocked
\* without --force, leaving the Approvals of its type as they were, and is
\* approved with --force.
C5_StrictModeGating ==
  \A t \in DocTypes :
    StrictCase(t) =>
      IF opts.force
      THEN /\ outcomes[t] = "approved"
           /\ ApprovalsFor(disk, t) =
                <<[documentType |-> t, contentHash |-> calculateHash(Render(t, mem))]>>
      ELSE /\ outcomes[t] = "blocked"
           /\ ApprovalsFor(disk, t) = ApprovalsFor(mem, t)
           /\ disk.documentHashes[t] = mem.documentHashes[t]

\* a strict-mode approve without --force has met a document with a missing
\* required section
C5_Witness ==
  \E t \in DocTypes : StrictCase(t) /\ ~opts.force /\ outcomes[t] = "blocked"

\* the forced half of C5
C5_ForcedReached ==
  \E t \in DocTypes : StrictCase(t) /\ opts.force /\ outcomes[t] = "approved"

\* C6: an approve invocation in which strict mode blocked a document ends
\* with a non-zero exit status.
C6_BlockedApproveExitsNonZero ==
  (cmd = "approve" /\ pc = "done" /\ \E t \in DocTypes : outcomes[t] = "blocked")
    => exitCode # 0

\* the texts one edit away from the rendering of a document: one field
\* taken out, or one field given another value
EditsOf(t, state) ==
  LET prog == state.documentProgress[t]
  IN UNION {
       {Render(t, [state EXCEPT !.documentProgress[t][f] = v]) :
          v \in {0, (prog[f] % MaxGen) + 1} \ {prog[f]}} :
       f \in FieldsOf(t)}

\* C7: hasDocumentChanged is true for a text, whichever it is (the current
\* rendering, the empty document, the rendering the command holds), while
\* the type has no Approval; right after recordApproval(t, c) it is false
\* for c and true for every edited text.
C7_ChangeDetection ==
  \A t \in DocTypes :
    /\ ~isDocumentApproved(disk, t)
         => /\ hasDocumentChanged(disk, t, Render(t, disk))
            /\ hasDocumentChanged(disk, t, Render(t, mem))
            /\ hasDocumentChanged(disk, t, Render(t, Blank))
    /\ (cmd = "approve" /\ outcomes[t] = "approved")
         => /\ ~hasDocumentChanged(disk, t, Render(t, mem))
            /\ \A c \in EditsOf(t, mem) : hasDocumentChanged(disk, t, c)

\* a document has just been approved
C7_Witness ==
  \E t \in DocTypes :
    /\ cmd = "approve"
    /\ outcomes[t] = "approved"
    /\ isDocumentApproved(disk, t)
    /\ EditsOf(t, mem) # {}

\* C8: areAllDocumentsApproved holds exactly when each of rfc, plan and
\* rollout has been approved at least once so far.
C8_AllApprovedOnceAllRecorded ==
  fileStatus = "ok" =>
    (areAllDocumentsApproved(disk) <=> \A t \in DocTypes : everApproved[t] # {})

\* all three approved, and a later `continue` has generated and advanced
C8_Witness ==
  /\ areAllDocumentsApproved(disk)
  /\ cmd = "continue"
  /\ pc = "done"
  /\ "Next step" \in said

\* C9: documentHashes[t] is set iff an Approval for t exists, and then it is
\* that Approval's contentHash.
C9_HashesInSync ==
  fileStatus = "ok" =>
    \A t \in DocTypes :
      IF isDocumentApproved(disk, t)
      THEN disk.documentHashes[t] = ApprovalsFor(disk, t)[1].contentHash
      ELSE disk.documentHashes[t] = NoHash

\* a document has been approved a second time, with other content
C9_Witness ==
  \E t \in DocTypes :
    /\ isDocumentApproved(disk, t)
    /\ Cardinality(everApproved[t]) >= 2

\* the two latest store calls raced: both loaded before either saved
Raced ==
  LET n == Len(wlog)
  IN /\ n >= 4
     /\ wlog[n - 3][2] = "load" /\ wlog[n - 2][2] = "load"
     /\ wlog[n - 1][2] = "save" /\ wlog[n][2] = "save"
     /\ wlog[n - 3][1] # wlog[n - 2][1]
     /\ wlog[n - 1][1] # wlog[n][1]

Winner == wlog[Len(wlog)][1]

Loser == wlog[Len(wlog) - 1][1]

\* the entry a store call adds
EntryOf(op) ==
  IF op.kind = "recordApproval"
  THEN [documentType |-> op.documentType, contentHash |-> calculateHash(op.content)]
  ELSE [stepId            |-> op.stepId,
        disagreements     |-> OrNull(op.answers.disagreements),
        clarifications    |-> OrNull(op.answers.clarifications),
        missedConstraints |-> OrNull(op.answers.missedConstraints)]

\* C10: when two store calls race, neither fails, the record holds the
\* update of the one that saved last, and of the other one's update nothing
\* is left: what the other call touched is as the last saver loaded it.
C10_LastWriterWins ==
  Raced =>
    LET won == wop[Winner]
        lost == wop[Loser]
        loaded == wsnap[Winner]
    IN /\ wpc[Winner] = "done" /\ wpc[Loser] = "done"
       /\ IF won.kind = "recordApproval"
          THEN ApprovalsFor(disk, won.documentType) = <<EntryOf(won)>>
          ELSE disk.checkpointResponses = Append(loaded.checkpointResponses, EntryOf(won))
       /\ IF lost.kind = "recordApproval"
          THEN (won.kind # "recordApproval" \/ won.documentType # lost.documentType)
                 => /\ ApprovalsFor(disk, lost.documentType)
                         = ApprovalsFor(loaded, lost.documentType)
                    /\ disk.documentHashes[lost.documentType]
                         = loaded.documentHashes[lost.documentType]
          ELSE won.kind # "recordCheckpointResponse"
                 => disk.checkpointResponses = loaded.checkpointResponses

\* rfc and plan were approved in a race and only the later save is on record
C10_Witness ==
  /\ Raced
  /\ wop[Loser].kind = "recordApproval"
  /\ wop[Winner].kind = "recordApproval"
  /\ wop[Loser].documentType # wop[Winner].documentType
  /\ isDocumentApproved(disk, wop[Winner].documentType)
  /\ ~isDocumentApproved(disk, wop[Loser].documentType)

\* an approval and a checkpoint response raced and the response is gone
C10_ResponseLost ==
  /\ Raced
  /\ wop[Loser].kind = "recordCheckpointResponse"
  /\ wop[Winner].kind = "recordApproval"
  /\ disk.checkpointResponses = <<>>

\* C11: a saveState that fails or is cut short leaves the durable record
\* either as it was or as the complete new state, so that a load after it
\* succeeds whenever a load before it would have.
C11_SaveAllOrNothing ==
  \A i \in 1..Len(calls) :
    (calls[i].op = "saveState" /\ calls[i].ret.kind = "cut")
      => /\ \/ calls[i].after = calls[i].before
            \/ calls[i].after = saveState(calls[i].before, calls[i].state).file
         /\ loadState(calls[i].before).kind = "ok" => loadState(calls[i].after).kind = "ok"

\* C12: initializeProject at a location that already holds a state record
\* fails and leaves the record as it found it.
C12_InitializeRefusesExisting ==
  \A i \in 1..Len(calls) :
    (calls[i].op = "initializeProject" /\ projectExists(calls[i].before))
      => /\ calls[i].ret.kind = "error"
         /\ calls[i].after = calls[i].before

\* C13: a loadState right after an initializeProject that returned gives a
\* state at the first step of the graph, with no approvals, no checkpoint
\* responses and strictMode false.
C13_InitializeThenLoad ==
  \A i \in 2..Len(calls) :
    (/\ calls[i].op = "loadState"
     /\ calls[i - 1].op = "initializeProject"
     /\ calls[i - 1].ret.kind = "ok")
      => /\ calls[i].ret.kind = "ok"
         /\ calls[i].ret.value.currentStep = FirstStep
         /\ calls[i].ret.value.approvals = <<>>
         /\ calls[i].ret.value.checkpointResponses = <<>>
         /\ calls[i].ret.value.strictMode = FALSE

\* initializeProject ran where a project was under way, then loadState
C13_Witness ==
  /\ Len(calls) = 2
  /\ calls[1].op = "initializeProject"
  /\ calls[1].ret.kind = "ok"
  /\ loadState(calls[1].before).kind = "ok"
  /\ loadState(calls[1].before).value.approvals # <<>>
  /\ calls[2].op = "loadState"
  /\ calls[2].ret.kind = "ok"

\* C14: a loadState right after a saveState(s) that completed returns a
\* state with the properties of s, each equal to the one of s.
C14_SaveLoadRoundTrip ==
  \A i \in 2..Len(calls) :
    (/\ calls[i].op = "loadState"
     /\ calls[i - 1].op = "saveState"
     /\ calls[i - 1].ret.kind = "ok")
      => /\ calls[i].ret.kind = "ok"
         /\ DOMAIN calls[i].ret.value = {JsonKeys[k] : k \in 1..Len(JsonKeys)}
         /\ \A k \in 1..Len(JsonKeys) :
              calls[i].ret.value[JsonKeys[k]] = calls[i - 1].state[JsonKeys[k]]

\* a state with generated fields, unset fields, an approval, a hash and
\* null answers was saved over another record and loaded back
C14_Witness ==
  /\ Len(calls) = 2
  /\ calls[1].op = "saveState"
  /\ calls[1].ret.kind = "ok"
  /\ calls[1].state = Seeded
  /\ calls[1].before.exists
  /\ calls[1].before # calls[1].after
  /\ calls[2].op = "loadState"
  /\ calls[2].ret.kind = "ok"

\* call i finds the file as a cut save left it
FoundTorn(i) ==
  \E j \in 1..(i - 1) :
    /\ calls[j].ret.kind = "cut"
    /\ \A k \in (j + 1)..(i - 1) : calls[k].after = calls[k].before

\* C15: loadState throws the one 'No DocForge project found' error when
\* the record is absent, when it cannot be read and when its text does not
\* parse; it returns no object in any of these cases.
C15_LoadFailsOneWay ==
  \A i \in 1..Len(calls) :
    (/\ calls[i].op = "loadState"
     /\ \/ ~calls[i].before.exists
        \/ Denied(calls[i].before)
        \/ FoundTorn(i))
      => calls[i].ret = Thrown(NoProjectFound)

\* loadState met a record whose text stops after some of its properties
C15_Witness ==
  /\ Len(calls) = 2
  /\ calls[1].ret.kind = "cut"
  /\ calls[1].written >= 3
  /\ calls[2].op = "loadState"
  /\ calls[2].ret.kind = "error"

\* loadState met a record it may not read
C15_DeniedReached ==
  /\ calls # <<>>
  /\ LastCall.op = "loadState"
  /\ Denied(LastCall.before)
  /\ LastCall.ret.kind = "error"

\* C16: following `next` from rfc.problem visits no step twice, and when
\* it reaches a step without a successor that step is `complete`, the only
\* such step, and every StepId has been visited.
C16_ChainVisitsEachOnce ==
  /\ \A i, j \in 1..Len(walk) : i # j => walk[i] # walk[j]
  /\ Len(walk) <= Cardinality(StepId)
  /\ getNextStep(walk[Len(walk)]) = Null
       => /\ walk[Len(walk)] = "complete"
          /\ {walk[i] : i \in 1..Len(walk)} = StepId
          /\ {stepId \in StepId : getNextStep(stepId) = Null} = {"complete"}

\* the walk has come to its end
C16_Witness ==
  /\ Len(walk) > 1
  /\ getNextStep(walk[Len(walk)]) = Null

\* the steps among `steps` whose successor lies in another phase
LeavingSteps(steps, phase) ==
  {i \in 1..Len(steps) :
     getNextStep(steps[i]) # Null /\ getPhase(getNextStep(steps[i])) # phase}

\* C17: of the steps getPhaseSteps gives for rfc, plan or rollout exactly
\* one has its `next` outside the phase, and that `next` is the first step
\* of the phase that follows in the order rfc, plan, rollout, prompts; no
\* step of prompts, the last phase, leaves it; the graph has exactly one
\* step without a successor.
C17_OneExitPerPhase ==
  probe.fn = "getPhaseSteps" =>
    LET phase == probe.phase
        steps == probe.steps
        idx == indexOf(phaseOrder, phase)
    IN /\ {steps[i] : i \in 1..Len(steps)} = {stepId \in StepId : getPhase(stepId) = phase}
       /\ IF idx < Len(phaseOrder)
          THEN /\ Cardinality(LeavingSteps(steps, phase)) = 1
               /\ \A i \in LeavingSteps(steps, phase) :
                    getNextStep(steps[i]) = getPhaseSteps(phaseOrder[idx + 1])[1]
          ELSE LeavingSteps(steps, phase) = {}
       /\ Cardinality({stepId \in StepId : getNextStep(stepId) = Null}) = 1

\* the steps of a phase in the middle of the order have been asked for
C17_Witness ==
  /\ probe.fn = "getPhaseSteps"
  /\ probe.phase = "plan"
  /\ Len(probe.steps) = 3

\* position of a phase in the order rfc, plan, rollout, prompts
PhaseRank(phase) ==
  CASE phase = "rfc" -> 1 [] phase = "plan" -> 2 [] phase = "rollout" -> 3
    [] phase = "prompts" -> 4

\* C18: isPhaseComplete(state, phase) is true exactly when currentStep lies
\* in a later phase or is the phase's `.complete` sentinel, that is from
\* the sentinel onwards along the chain; it is false at every other step
\* of the phase, the last substantive one included.
C18_PhaseCompleteFromSentinel ==
  probe.fn = "isPhaseComplete" =>
    LET sentinel == completeStepId(probe.phase)
    IN /\ probe.answer <=> (\/ PhaseRank(STEPS[probe.step].phase) > PhaseRank(probe.phase)
                            \/ probe.step = sentinel)
       /\ probe.answer <=> StepIndex(probe.step) >= StepIndex(sentinel)
       /\ (STEPS[probe.step].phase = probe.phase /\ probe.step # sentinel) => ~probe.answer

\* the query was made at the last substantive step of the phase asked about
C18_Witness ==
  /\ probe.fn = "isPhaseComplete"
  /\ probe.phase = "rfc"
  /\ probe.step = "rfc_alternatives"
  /\ ~probe.answer

\* C19: getProgressPercentage(state) is the integer nearest to
\* 100 * i / (n - 1), a half going up, where i is the number of hops from
\* rfc.problem to currentStep and n the number of steps; it lies in 0..100,
\* is 0 at the first step and 100 at `complete`, and does not decrease
\* from a step to its successor.
C19_ProgressPercentage ==
  probe.fn = "getProgressPercentage" =>
    LET i == StepIndex(probe.step)
        hops == Cardinality(StepId) - 1
        off == 2 * hops * probe.number - 200 * i
        succ == getNextStep(probe.step)
    IN /\ probe.number \in 0..100
       /\ -hops < off /\ off <= hops
       /\ probe.step = FirstStep => probe.number = 0
       /\ probe.step = "complete" => probe.number = 100
       /\ succ # Null
            => getProgressPercentage([Blank EXCEPT !.currentStep = succ]) >= probe.number

\* the percentage was asked at the terminal step
C19_Witness ==
  /\ probe.fn = "getProgressPercentage"
  /\ probe.step = "complete"
  /\ probe.number = 100

\* the percentage was asked where the quotient is not an integer
C19_RoundedReached ==
  /\ probe.fn = "getProgressPercentage"
  /\ probe.step = "rfc_goals"
  /\ probe.number = 7

\* C20: updateState(updates) on a record that loads returns the loaded
\* state with each property named in `updates` replaced by the value given
\* (documentProgress as a whole, not field by field) and every other
\* property as loaded, and the file then holds that state.
C20_UpdateShallowMerge ==
  \A i \in 1..Len(calls) :
    (calls[i].op = "updateState" /\ loadState(calls[i].before).kind = "ok")
      => /\ calls[i].ret.kind = "ok"
         /\ \A k \in 1..Len(JsonKeys) :
              calls[i].ret.value[JsonKeys[k]] =
                IF JsonKeys[k] \in DOMAIN calls[i].updates
                THEN calls[i].updates[JsonKeys[k]]
                ELSE loadState(calls[i].before).value[JsonKeys[k]]
         /\ loadState(calls[i].after) = calls[i].ret

\* an update carrying a documentProgress met a record with other fields
\* of documentProgress set, and they are gone
C20_Witness ==
  /\ calls # <<>>
  /\ LastCall.op = "updateState"
  /\ LastCall.ret.kind = "ok"
  /\ "documentProgress" \in DOMAIN LastCall.updates
  /\ loadState(LastCall.before).value.documentProgress["rfc"]["problem"] # 0
  /\ LastCall.ret.value.documentProgress["rfc"]["problem"] = 0
  /\ LastCall.ret.value.currentStep = loadState(LastCall.before).value.currentStep

\* the entries of a response history recorded for stepId
EntriesFor(responses, stepId) ==
  { k \in 1..Len(responses) : responses[k].stepId = stepId }

\* C21: a recordCheckpointResponse that returns has added exactly one entry,
\* the one it was given, at the end of checkpointResponses; the entries
\* that were there are all kept, in their order, also those for the same
\* stepId (one entry more for that stepId than before); every other property
\* of the state is as it was loaded, and the record on file is the state
\* returned.
C21_ResponseAppended ==
  \A i \in 1..Len(calls) :
    (calls[i].op = "recordCheckpointResponse" /\ calls[i].ret.kind = "ok") =>
      LET prior == loadState(calls[i].before).value
          new   == calls[i].ret.value
          a     == calls[i].args
          n     == Len(prior.checkpointResponses)
      IN /\ Len(new.checkpointResponses) = n + 1
         /\ \A k \in 1..n : new.checkpointResponses[k] = prior.checkpointResponses[k]
         /\ new.checkpointResponses[n + 1].stepId = a[1]
         /\ new.checkpointResponses[n + 1].disagreements = a[2]
         /\ new.checkpointResponses[n + 1].clarifications = a[3]
         /\ new.checkpointResponses[n + 1].missedConstraints = a[4]
         /\ Cardinality(EntriesFor(new.checkpointResponses, a[1]))
              = Cardinality(EntriesFor(prior.checkpointResponses, a[1])) + 1
         /\ \A k \in 1..Len(JsonKeys) :
              JsonKeys[k] # "checkpointResponses" => new[JsonKeys[k]] = prior[JsonKeys[k]]
         /\ loadState(calls[i].after) = Returned(new)

\* a response recorded for a step that already had one: two entries for it
C21_Witness ==
  /\ calls # <<>>
  /\ LastCall.op = "recordCheckpointResponse"
  /\ LastCall.ret.kind = "ok"
  /\ Cardinality(EntriesFor(LastCall.ret.value.checkpointResponses, LastCall.args[1])) >= 2
  /\ Len(LastCall.ret.value.checkpointResponses) >= 2

\* the recorded responses that belong to a phase and carry a non-empty field
MatchingEntries(responses, phase) ==
  { k \in 1..Len(responses) :
      /\ getPhase(responses[k].stepId) = phase
      /\ \E text \in {responses[k].disagreements, responses[k].clarifications,
                       responses[k].missedConstraints} : text \notin {Null, ""} }

\* the non-empty fields of one response
FieldsGiven(r) ==
  {text \in {r.disagreements, r.clarifications, r.missedConstraints} : text \notin {Null, ""}}

\* C22: the feedback for a phase is empty exactly when no recorded response of
\* that phase carries a non-empty field; otherwise it has, after its header,
\* one line per such response, every one of them and not only the latest, in
\* the order they were recorded, each with that response's stepId and its
\* non-empty fields.
C22_FeedbackHasEveryEntry ==
  \A i \in 1..Len(calls) :
    calls[i].op = "getRelevantFeedback" =>
      LET responses == loadState(calls[i].before).value.checkpointResponses
          matching  == MatchingEntries(responses, calls[i].args[1])
          out       == calls[i].ret.value
      IN /\ (out = <<>>) <=> (matching = {})
         /\ matching # {} =>
              /\ Len(out) = 1 + Cardinality(matching)
              /\ \A k \in matching :
                   LET line == out[1 + Cardinality({m \in matching : m <= k})]
                   IN /\ line.stepId = responses[k].stepId
                      /\ {line.parts[n][2] : n \in 1..Len(line.parts)}
                           = FieldsGiven(responses[k])

\* feedback asked for a phase that has two responses with something in them
C22_Witness ==
  /\ calls # <<>>
  /\ LastCall.op = "getRelevantFeedback"
  /\ Cardinality(MatchingEntries(loadState(LastCall.before).value.checkpointResponses,
                                 LastCall.args[1])) >= 2
  /\ Len(LastCall.ret.value) = 3

\* feedback asked for a phase whose only response has no field set: empty
C22_EmptyResponseSkipped ==
  /\ calls # <<>>
  /\ LastCall.op = "getRelevantFeedback"
  /\ LastCall.ret.value = <<>>
  /\ \E k \in 1..Len(loadState(LastCall.before).value.checkpointResponses) :
       getPhase(loadState(LastCall.before).value.checkpointResponses[k].stepId)
         = LastCall.args[1]

\* the approvals of a history that are for other document types than t
ApprovalsOfOthers(approvals, t) == SelectSeq(approvals, LAMBDA a : a.documentType # t)

\* C23: a recordApproval(t, content) that returns leaves the approvals of the
\* other document types as they were, in their order, and their
\* documentHashes too (a type that was unapproved stays unapproved);
\* currentStep, checkpointResponses, documentProgress, project, version and
\* strictMode keep their loaded values; the record on file is the state
\* returned.
C23_ApprovalTouchesOneType ==
  \A i \in 1..Len(calls) :
    (calls[i].op = "recordApproval" /\ calls[i].ret.kind = "ok") =>
      LET prior == loadState(calls[i].before).value
          new   == calls[i].ret.value
          t     == calls[i].args[1]
      IN /\ ApprovalsOfOthers(new.approvals, t) = ApprovalsOfOthers(prior.approvals, t)
         /\ \A u \in DocTypes \ {t} :
              /\ new.documentHashes[u] = prior.documentHashes[u]
              /\ isDocumentApproved(new, u) = isDocumentApproved(prior, u)
         /\ \A k \in 1..Len(JsonKeys) :
              JsonKeys[k] \notin {"approvals", "documentHashes"}
                => new[JsonKeys[k]] = prior[JsonKeys[k]]
         /\ isDocumentApproved(new, t)
         /\ loadState(calls[i].after) = Returned(new)

\* plan approved in a project whose rfc is approved and that has a response
\* and generated content: the rfc approval and its hash are still there
C23_Witness ==
  /\ calls # <<>>
  /\ LastCall.op = "recordApproval"
  /\ LastCall.ret.kind = "ok"
  /\ LastCall.args[1] = "plan"
  /\ isDocumentApproved(LastCall.ret.value, "rfc")
  /\ LastCall.ret.value.documentHashes["rfc"] # NoHash
  /\ ~isDocumentApproved(LastCall.ret.value, "rollout")
  /\ LastCall.ret.value.checkpointResponses # <<>>

\* the requirements of a type that a text matches nowhere, required or optional
Unmatched(documentType, content, required) ==
  { i \in 1..Len(SectionsOf(documentType)) :
      /\ SectionsOf(documentType)[i].required = required
      /\ SectionsOf(documentType)[i].name \notin content.secs }

\* the place of a section name in the requirements of a type
PlaceOf(documentType, name) ==
  CHOOSE i \in 1..Len(SectionsOf(documentType)) : SectionsOf(documentType)[i].name = name

\* C24: validate(documentType, text) lists in missingSections exactly the
\* required sections of the type that the text does not match, each once, in
\* the order of the requirements; warnings has one entry for each optional
\* section not matched; valid is true exactly when missingSections is empty,
\* whatever the warnings.
C24_ValidateListsMissing ==
  probe.fn = "validateDocumentByType" =>
    LET r       == probe.result
        missing == Unmatched(probe.doc, probe.content, TRUE)
        opt     == Unmatched(probe.doc, probe.content, FALSE)
    IN /\ Len(r.missingSections) = Cardinality(missing)
       /\ {r.missingSections[k] : k \in 1..Len(r.missingSections)}
            = {SectionsOf(probe.doc)[i].name : i \in missing}
       /\ \A a, b \in 1..Len(r.missingSections) :
            a < b => PlaceOf(probe.doc, r.missingSections[a])
                       < PlaceOf(probe.doc, r.missingSections[b])
       /\ Len(r.warnings) = Cardinality(opt)
       /\ {r.warnings[k][2] : k \in 1..Len(r.warnings)}
            = {SectionsOf(probe.doc)[i].name : i \in opt}
       /\ r.valid <=> (r.missingSections = <<>>)

\* an rfc that lacks two required sections and an optional one
C24_Witness ==
  /\ probe.fn = "validateDocumentByType"
  /\ ~probe.result.valid
  /\ Len(probe.result.missingSections) = 2
  /\ Len(probe.result.warnings) = 1

\* an rfc with every required section and neither optional one: valid
C24_ValidWithWarnings ==
  /\ probe.fn = "validateDocumentByType"
  /\ probe.result.valid
  /\ Len(probe.result.warnings) = 2

\* C25: strictModeCheck passes with no errors whenever strictMode is false;
\* with strictMode true it passes, with no errors, exactly when the text is
\* valid, and otherwise its errors are one message per missing required
\* section, in the order validate lists them.
C25_StrictModeCheck ==
  probe.fn = "strictModeCheck" =>
    LET r       == probe.result
        missing == Unmatched(probe.doc, probe.content, TRUE)
    IN /\ ~probe.strict => (r.passes /\ r.errors = <<>>)
       /\ probe.strict =>
            /\ r.passes <=> (missing = {})
            /\ r.passes <=> validateDocumentByType(probe.doc, probe.content).valid
            /\ r.passes => r.errors = <<>>
            /\ ~r.passes =>
                 /\ Len(r.errors) = Cardinality(missing)
                 /\ {r.errors[k][2] : k \in 1..Len(r.errors)}
                      = {SectionsOf(probe.doc)[i].name : i \in missing}
                 /\ \A k \in 1..Len(r.errors) : r.errors[k][1] = "Missing required section: "

\* strict mode on, a text lacking three required sections: three errors
C25_Witness ==
  /\ probe.fn = "strictModeCheck"
  /\ probe.strict
  /\ ~probe.result.passes
  /\ Len(probe.result.errors) = 3

\* strict mode off, the same kind of text: passes
C25_LaxPassesInvalid ==
  /\ probe.fn = "strictModeCheck"
  /\ ~probe.strict
  /\ probe.result.passes
  /\ ~validateDocumentByType(probe.doc, probe.content).valid

\* the ways a text may be written: either line ending, with or without
\* whitespace around it
WritingsOf(content) ==
  { Written(content, eol, padded) : eol \in {"lf", "crlf"}, padded \in BOOLEAN }

\* C26: after recordApproval(t, c) hasDocumentChanged(state, t, c') is false
\* for every text c' that differs from c only in its line endings (CRLF or
\* LF) or in leading and trailing whitespace, and the contentHash stored is
\* the hash of the literal content c.
C26_ChangeDetectionNormalizes ==
  \A i \in 1..Len(calls) :
    (calls[i].op = "recordApproval" /\ calls[i].ret.kind = "ok") =>
      LET state == calls[i].ret.value
          t     == calls[i].args[1]
          c     == calls[i].args[2]
      IN /\ state.documentHashes[t] = calculateHash(c)
         /\ \A other \in WritingsOf(c) :
              contentEquals(other, c) => ~hasDocumentChanged(state, t, other)

\* C27: the project metadata of the persisted state never changes once the
\* project exists: whatever init, continue (with its recordCheckpointResponse),
\* approve (with its recordApproval), prompts or review do, state.project
\* stays the metadata given at creation; and a project created by init holds
\* the metadata init was given.
C27_ProjectImmutable ==
  [][/\ (fileStatus = "ok" /\ fileStatus' = "ok") => disk'.project = disk.project
     /\ (fileStatus # "ok" /\ fileStatus' = "ok")
          => (cmd' = "init" /\ disk' = [createInitialState(disk'.project)
                                          EXCEPT !.strictMode = disk'.strictMode])]_vars

\* a project created as Q that has since been generated into, answered at a
\* checkpoint and approved
C27_Witness ==
  /\ fileStatus = "ok"
  /\ disk.project = "Q"
  /\ disk.checkpointResponses # <<>>
  /\ disk.approvals # <<>>
  /\ disk.documentProgress # EmptyProgress

\* C28 as stated: a `continue` run while the provider is not configured ends
\* with a non-zero exit status and leaves the persisted record (currentStep,
\* documentProgress, checkpointResponses and the rest) as it was.
C28_UnconfiguredContinueFails ==
  [][(\E auto \in BOOLEAN : ContinueStartWith(auto, FALSE))
       => /\ pc' = "done"
          /\ exitCode' # 0
          /\ fileStatus' = fileStatus
          /\ disk' = disk]_vars

\* C28, amended: a `continue` run while the provider is not configured ends
\* at once and leaves the persisted record as it was; its exit status is
\* non-zero unless the project is already at `complete`, where the command
\* reports that everything is generated and returns 0 before it looks for a
\* provider.
C28_UnconfiguredContinueStops ==
  [][(\E auto \in BOOLEAN : ContinueStartWith(auto, FALSE))
       => /\ pc' = "done"
          /\ fileStatus' = fileStatus
          /\ disk' = disk
          /\ (exitCode' = 0) <=> (fileStatus = "ok" /\ disk.currentStep = "complete")
          /\ exitCode' = 0 => said' = {"All documents have been generated!"}]_vars

\* a continue stopped for want of a provider, in a project that has content
C28_Witness ==
  /\ cmd = "continue"
  /\ pc = "done"
  /\ exitCode = 1
  /\ said = {"Provider is not configured."}
  /\ fileStatus = "ok"
  /\ disk.documentProgress # EmptyProgress
  /\ disk.currentStep # "complete"

\* the store operations that load, modify and save
ReadModifyWrite == {"updateState", "recordCheckpointResponse", "recordApproval"}

\* C29: when the load inside updateState, recordCheckpointResponse or
\* recordApproval fails, the call fails with that same error and nothing is
\* written: the location is exactly as it was before the call (absent stays
\* absent, a torn or unreadable file keeps its content).
C29_LoadFailurePropagates ==
  \A i \in 1..Len(calls) :
    (calls[i].op \in ReadModifyWrite /\ loadState(calls[i].before).kind = "error") =>
      /\ calls[i].ret = loadState(calls[i].before)
      /\ calls[i].ret = Thrown(NoProjectFound)
      /\ calls[i].after = calls[i].before

\* recordApproval on a file an interrupted save left torn: it throws and the
\* torn text is still there
C29_Witness ==
  /\ Len(calls) = 2
  /\ calls[1].ret.kind = "cut"
  /\ calls[2].op = "recordApproval"
  /\ calls[2].ret.kind = "error"
  /\ file.exists
  /\ file = calls[1].after

\* each of the three on a location with no record
C29_AbsentReached ==
  /\ Len(calls) = 2
  /\ calls[1].op = "updateState"
  /\ calls[2].op = "recordCheckpointResponse"
  /\ calls[1].ret.kind = "error"
  /\ calls[2].ret.kind = "error"
  /\ ~file.exists

\* C30: projectExists never throws and changes nothing; it answers true
\* exactly when there is a record at the location, also one that is torn or
\* may not be read; it answers false where nothing was ever written, and
\* true at every later call once an initializeProject has succeeded.
C30_ExistsIffPresent ==
  \A i \in 1..Len(calls) :
    calls[i].op = "projectExists" =>
      /\ calls[i].ret.kind = "ok"
      /\ calls[i].ret.value \in BOOLEAN
      /\ calls[i].ret.value <=> (calls[i].before # NoFile)
      /\ calls[i].after = calls[i].before
      /\ (\E j \in 1..(i - 1) : calls[j].op = "initializeProject" /\ calls[j].ret.kind = "ok")
           => calls[i].ret.value
      /\ (calls[1].before = NoFile /\ \A j \in 1..(i - 1) : calls[j].op = "projectExists")
           => ~calls[i].ret.value

\* false, then initializeProject, then true (with MaxStoreOps calls: the
\* last two of these)
C30_Witness ==
  /\ Len(calls) = 2
  /\ calls[1].op = "initializeProject"
  /\ calls[1].before = NoFile
  /\ calls[1].ret.kind = "ok"
  /\ calls[2].op = "projectExists"
  /\ calls[2].ret = Returned(TRUE)

\* asked where nothing has been written: false
C30_AbsentReached ==
  /\ calls # <<>>
  /\ LastCall.op = "projectExists"
  /\ LastCall.before = NoFile
  /\ LastCall.ret = Returned(FALSE)

\* asked about a file an interrupted save left torn: true
C30_TornReached ==
  /\ Len(calls) = 2
  /\ calls[1].ret.kind = "cut"
  /\ calls[2].op = "projectExists"
  /\ calls[2].ret = Returned(TRUE)

\* the messages of a generateStep that threw
GenerationErrors ==
  {"Error: agent cannot handle step", "Error: No stages defined.", "Error: generation failed"}

\* C31: in `continue` the persisted currentStep moves only in the advance
\* that follows a successful generation of the current step (the agent
\* handles the step and has written its fields); when generateStep throws,
\* the command ends with a non-zero status and the persisted record,
\* currentStep included, is as it was.
C31_AdvanceOnlyAfterGeneration ==
  [][/\ (pc = "generate" /\ pc' = "done")
          => /\ said' \subseteq GenerationErrors
             /\ exitCode' # 0
             /\ disk' = disk
     /\ (cmd' = "continue" /\ fileStatus = "ok"
           /\ disk'.currentStep # disk.currentStep)
          => /\ pc = "advance"
             /\ disk'.currentStep = getNextStep(disk.currentStep)
             /\ disk.currentStep \in HandledSteps
             /\ \A f \in FieldsWritten(disk.currentStep) :
                  disk.documentProgress[getPhase(disk.currentStep)][f] # 0]_vars

\* a continue whose generation threw, in a project that had got somewhere
C31_Witness ==
  /\ cmd = "continue"
  /\ pc = "done"
  /\ exitCode = 1
  /\ said \cap GenerationErrors # {}
  /\ disk.currentStep = resumedAt
  /\ resumedAt # FirstStep

\* the other half: a continue that generated and then advanced
C31_AdvancedReached ==
  /\ cmd = "continue"
  /\ pc = "done"
  /\ exitCode = 0
  /\ resumedAt \in HandledSteps
  /\ disk.currentStep = getNextStep(resumedAt)

\* the response recorded last
LastResponse(state) == state.checkpointResponses[Len(state.checkpointResponses)]

\* C32: when the operator declines at a checkpoint, `continue` ends with
\* currentStep unchanged, the step's generated content on file and the
\* response appended to checkpointResponses; the `continue` run next starts
\* from that record: it resumes at the same step and its state holds that
\* response.
C32_DeclineKeepsStepAndResponse ==
  [][/\ (pc = "checkpoint" /\ pc' = "done")
          => /\ said' = {"Stopped at checkpoint."}
             /\ exitCode' = 0
             /\ disk'.currentStep = disk.currentStep
             /\ disk'.currentStep = resumedAt
             /\ disk'.documentProgress = mem.documentProgress
             /\ \A f \in FieldsWritten(resumedAt) :
                  disk'.documentProgress[getPhase(resumedAt)][f] # 0
             /\ Len(disk'.checkpointResponses) = Len(disk.checkpointResponses) + 1
             /\ LastResponse(disk').stepId = resumedAt
     /\ (said = {"Stopped at checkpoint."} /\ pc = "done" /\ cmd' = "continue"
           /\ ncmds' = ncmds + 1)
          => /\ resumedAt' = disk.currentStep
             /\ resumedAt' = resumedAt
             /\ mem' = disk
             /\ LastResponse(mem').stepId = resumedAt']_vars

\* the continue after a declined checkpoint, about to generate the same step
\* again with the response in its state
C32_Witness ==
  /\ cmd = "continue"
  /\ ncmds >= 2
  /\ pc = "generate"
  /\ mem.checkpointResponses # <<>>
  /\ LastResponse(mem).stepId = mem.currentStep
  /\ mem.currentStep = resumedAt
  /\ mem.documentProgress # EmptyProgress

\* C33: a `continue` started on a project whose currentStep is `complete`
\* ends at once and successfully: no generation is begun and the persisted
\* record is unchanged.
C33_ContinueAtCompleteIsNoOp ==
  [][(cmd' = "continue" /\ ncmds' = ncmds + 1
       /\ fileStatus = "ok" /\ disk.currentStep = "complete")
       => /\ pc' = "done"
          /\ exitCode' = 0
          /\ said' = {"All documents have been generated!"}
          /\ fileStatus' = fileStatus
          /\ disk' = disk]_vars

\* continue run on a project that an earlier command brought to `complete`
C33_Witness ==
  /\ cmd = "continue"
  /\ ncmds >= 2
  /\ pc = "done"
  /\ exitCode = 0
  /\ said = {"All documents have been generated!"}
  /\ disk.currentStep = "complete"
  /\ resumedAt = "complete"

\* C34: `prompts` without --force on a project whose documents are not all
\* approved exits non-zero and changes nothing; so does `prompts` on a
\* project without plan stages, forced or not; the only change `prompts`
\* ever makes is the one of a successful generation of all prompts, which
\* persists currentStep = complete and exits 0.
C34_PromptsGate ==
  [][(cmd' = "prompts" /\ ncmds' = ncmds + 1 /\ fileStatus = "ok")
       => /\ (~opts'.force /\ ~areAllDocumentsApproved(disk))
               => (exitCode' # 0 /\ disk' = disk)
          /\ disk.documentProgress["plan"]["stages"] = 0
               => (exitCode' # 0 /\ disk' = disk)
          /\ said' = {"All stage prompts generated!"}
               => /\ exitCode' = 0
                  /\ disk' = [disk EXCEPT !.currentStep = "complete"]
                  /\ opts'.force \/ areAllDocumentsApproved(disk)
          /\ disk' # disk => said' = {"All stage prompts generated!"}
          /\ pc' = "done"
          /\ fileStatus' = fileStatus]_vars

\* prompts refused on a project that has plan stages but an unapproved
\* document
C34_Witness ==
  /\ cmd = "prompts"
  /\ pc = "done"
  /\ ~opts.force
  /\ exitCode = 1
  /\ said = {"Not all documents are approved."}
  /\ disk.documentProgress["plan"]["stages"] # 0
  /\ disk.currentStep # "complete"

\* prompts without --force generating everything on an approved project
C34_GeneratedReached ==
  /\ cmd = "prompts"
  /\ pc = "done"
  /\ ~opts.force
  /\ exitCode = 0
  /\ said = {"All stage prompts generated!"}
  /\ disk.currentStep = "complete"
  /\ areAllDocumentsApproved(disk)

\* prompts --force on a project without plan stages
C34_NoStagesReached ==
  /\ cmd = "prompts"
  /\ pc = "done"
  /\ opts.force
  /\ exitCode = 1
  /\ said = {"No stages defined in PLAN."}

\* C35: at the end of an `approve all` in which an Approval was recorded
\* for rfc, for plan and for rollout, the command's final all-approved
\* check is true (it prints the 'All documents approved' hint).
C35_FinalCheckSeesApprovals ==
  (/\ cmd = "approve"
   /\ pc = "done"
   /\ opts.target = "all"
   /\ \A t \in DocTypes : outcomes[t] = "approved")
  => "All documents approved." \in said

\* C36: `approve` records no Approval for a document that is not yet
\* generated (its rendered text is empty or has fewer than 50 characters
\* after trimming), with or without --force: the document is skipped and
\* the persisted record, its approvals and documentHashes included, is as it
\* was; and whenever the approvals or the hash of a type do change under
\* `approve`, that type's rendered text was long enough.
C36_UngeneratedIsSkipped ==
  [][/\ (pc = "approveDocs" /\ queue # <<>> /\ ~Render(Head(queue), mem).long)
          => /\ outcomes'[Head(queue)] = "skipped"
             /\ disk' = disk
     /\ \A t \in DocTypes :
          (cmd = "approve" /\ cmd' = "approve" /\ fileStatus = "ok"
            /\ (ApprovalsFor(disk', t) # ApprovalsFor(disk, t)
                 \/ disk'.documentHashes[t] # disk.documentHashes[t]))
          => Render(t, mem).long]_vars

\* `approve all --force` on a project with RFC content only: rfc approved,
\* plan skipped and still unapproved
C36_Witness ==
  /\ cmd = "approve"
  /\ pc = "done"
  /\ opts.force
  /\ outcomes["rfc"] = "approved"
  /\ outcomes["plan"] = "skipped"
  /\ ~isDocumentApproved(disk, "plan")
  /\ disk.documentHashes["plan"] = NoHash

\* the state of a project whose currentStep is the k-th step of the walk
WalkState(k) == [Blank EXCEPT !.currentStep = walk[k]]

\* C37: along the walk by getNextStep, a phase that isPhaseComplete reports
\* complete at one step is reported complete at every step reached later.
C37_PhaseCompleteMonotone ==
  \A i, j \in 1..Len(walk) :
    i <= j =>
      \A phase \in {"rfc", "plan", "rollout"} :
        isPhaseComplete(WalkState(i), phase) => isPhaseComplete(WalkState(j), phase)

\* the walk has gone from a step where rfc was not complete, over its
\* sentinel, to the terminal step, where all three phases are complete
C37_Witness ==
  /\ walk[Len(walk)] = "complete"
  /\ ~isPhaseComplete(WalkState(1), "rfc")
  /\ \E k \in 1..Len(walk) : walk[k] = "rfc_complete" /\ isPhaseComplete(WalkState(k), "rfc")
  /\ \A phase \in {"rfc", "plan", "rollout"} : isPhaseComplete(WalkState(Len(walk)), phase)

\* C38: every response on file is for a checkpoint step; a response is
\* added to the file only by the checkpoint interaction of a `continue` run
\* without --auto, one at a time, and its stepId is the currentStep of that
\* moment, the step the command resumed at: none is ever recorded for a
\* `.complete` sentinel, for prompts.generate or for `complete`.
C38_ResponsesOnlyAtCheckpoints ==
  [][/\ \A k \in 1..Len(disk'.checkpointResponses) :
          /\ isCheckpoint(disk'.checkpointResponses[k].stepId)
          /\ disk'.checkpointResponses[k].stepId
               \notin {"rfc_complete", "plan_complete", "rollout_complete",
                        "prompts_generate", "complete"}
     /\ Len(disk'.checkpointResponses) > Len(disk.checkpointResponses)
          => /\ cmd = "continue"
             /\ pc = "checkpoint"
             /\ ~opts.auto
             /\ Len(disk'.checkpointResponses) = Len(disk.checkpointResponses) + 1
             /\ LastResponse(disk').stepId = disk.currentStep
             /\ LastResponse(disk').stepId = resumedAt
             /\ isCheckpoint(disk.currentStep)]_vars

\* a response recorded at a plan checkpoint
C38_Witness ==
  /\ cmd = "continue"
  /\ ~opts.auto
  /\ disk.checkpointResponses # <<>>
  /\ LastResponse(disk).stepId = "plan_stages"
  /\ resumedAt = "plan_stages"

\* continue --auto over a checkpoint step: advanced, nothing recorded
C38_AutoReached ==
  /\ cmd = "continue"
  /\ opts.auto
  /\ pc = "done"
  /\ exitCode = 0
  /\ isCheckpoint(resumedAt)
  /\ disk.currentStep = getNextStep(resumedAt)
  /\ disk.checkpointResponses = <<>>

\* C39: getRemainingSteps(state) is the number of `next` hops from
\* currentStep to the terminal step `complete`: 0 exactly at `complete`,
\* one less at the successor of a step than at the step itself; and the
\* order in which the steps are declared, by which the count is indexed, is
\* the order of the successor chain.
C39_RemainingStepsAreHops ==
  /\ probe.fn = "getRemainingSteps" =>
       /\ probe.number = Hops(probe.step, "complete")
       /\ (probe.number = 0) <=> (probe.step = "complete")
       /\ STEPS[probe.step].next # Null =>
            getRemainingSteps([Blank EXCEPT !.currentStep = STEPS[probe.step].next])
              = probe.number - 1
  /\ \A k \in 1..Len(walk) :
       /\ walk[k] = allSteps[k]
       /\ getRemainingSteps(WalkState(k)) = Len(allSteps) - k

\* asked in the middle of the chain, with the walk gone that far
C39_Witness ==
  /\ probe.fn = "getRemainingSteps"
  /\ probe.step = "plan_criteria"
  /\ probe.number = 7
  /\ walk[Len(walk)] = "plan_criteria"

\* asked at the terminal step
C39_ZeroReached ==
  /\ probe.fn = "getRemainingSteps"
  /\ probe.step = "complete"
  /\ probe.number = 0
  /\ Len(walk) = Len(allSteps)

====
